---- MODULE Spec2Model ----
(***************************************************************************)
(* A model of rsk_mt: the policy-enforced dict (rsk_mt/model.py), the JSON *)
(* Schema object model that screens it (jsonschema/validators/object.py)   *)
(* and the two-phase schema graph build (jsonschema/schema.py).            *)
(***************************************************************************)
EXTENDS Integers, Sequences, FiniteSets, TLC

(***************************************************************************)
(* Bounds of the model.                                                    *)
(***************************************************************************)
\* values are 0..MaxVal; 0 stands for Python's None, 1..MaxVal for numbers
MaxVal == 1
\* the largest number of pairs in the argument of update()
MaxOther == 2

Keys == {"foo", "bar", "baz"}
KeyOrder == <<"foo", "bar", "baz">>
PyNone == 0
Numbers == 1..MaxVal
AllValues == {PyNone} \cup Numbers

\* every dict over Keys with values in AllValues
Dicts == UNION {[S -> AllValues] : S \in SUBSET Keys}
EmptyDict == [k \in {} |-> PyNone]

\* dict(initial).update(other)
DictUpdate(initial, other) ==
    [k \in (DOMAIN initial) \cup (DOMAIN other) |->
        IF k \in DOMAIN other THEN other[k] ELSE initial[k]]
\* dict.__setitem__
DictSet(d, key, val) == [k \in (DOMAIN d) \cup {key} |-> IF k = key THEN val ELSE d[k]]
\* dict.__delitem__ for a key that is present
DictDel(d, key) == [k \in (DOMAIN d) \ {key} |-> d[k]]

\* the first exception raised by a sequence of steps ("ok" when none raises)
FirstExc(excs) ==
    IF \A i \in 1..Len(excs) : excs[i] = "ok" THEN "ok"
    ELSE excs[CHOOSE i \in 1..Len(excs) :
              excs[i] # "ok" /\ \A j \in 1..(i - 1) : excs[j] = "ok"]

\* the keys of S in iteration order
KeysInOrder(S) == SelectSeq(KeyOrder, LAMBDA k : k \in S)

\* every order in which the elements of a set may be iterated
Orders(S) ==
    {f \in [1..Cardinality(S) -> S] : \A i, j \in 1..Cardinality(S) : f[i] = f[j] => i = j}

(***************************************************************************)
(* Sub-schemas applied to one value.  A Schema is callable: it returns the *)
(* value or raises TypeError / ValueError.  A value schema is the set of   *)
(* values its implementation accepts and the exception it raises.          *)
(***************************************************************************)
SchemaTrue == [accepts |-> AllValues, exc |-> "ValueError"]
SchemaFalse == [accepts |-> {}, exc |-> "ValueError"]
\* {"type": "number"}
SchemaNumber == [accepts |-> Numbers, exc |-> "TypeError"]
\* {"multipleOf": 2}: constrains numbers only
SchemaMultipleOf2 == [accepts |-> {v \in AllValues : v % 2 = 0}, exc |-> "ValueError"]

\* Schema.__call__: "ok" or the exception raised
SchemaCall(schema, val) == IF val \in schema.accepts THEN "ok" ELSE schema.exc

(***************************************************************************)
(* ObjectModel (jsonschema/validators/object.py).  An object model is a    *)
(* record: required, minProperties / maxProperties (a set holding the      *)
(* keyword's value, empty when the keyword is absent), properties (key ->  *)
(* value schema), patternProperties (a sequence of [regexp, schema], the   *)
(* regexp given by the keys it matches), additionalProperties and          *)
(* propertyNames (a sequence holding the sub-schema, empty when absent),   *)
(* dep_instance (trigger key -> object model), dep_presence (trigger key   *)
(* -> keys).                                                               *)
(***************************************************************************)
\* lambda val, dec=0: min_ <= (len(val) - dec); absent keyword: always True
ge_min(m, val, dec) == \A min_ \in m.minProperties : min_ <= Cardinality(DOMAIN val) - dec
\* lambda val, inc=0: (len(val) + inc) <= max_; absent keyword: always True
le_max(m, val, inc) == \A max_ \in m.maxProperties : Cardinality(DOMAIN val) + inc <= max_
\* build_validator_required
validator_required(m, val) == m.required \subseteq DOMAIN val
\* self._dependencies = self._dep_instance or self._dep_presence
has_dependencies(m) == DOMAIN m.dep_instance # {} \/ DOMAIN m.dep_presence # {}

\* Validator.__call__ over the (minProperties, maxProperties, required) pairs
Validator_call(m, val) ==
    IF ge_min(m, val, 0) /\ le_max(m, val, 0) /\ validator_required(m, val)
    THEN "ok" ELSE "ValueError"

\* the least element of a non-empty set of indices
First(I) == CHOOSE i \in I : \A j \in I : i <= j

\* the place of a key in iteration order
KeyIndex(key) == CHOOSE i \in 1..Len(KeyOrder) : KeyOrder[i] = key
\* the first key of a non-empty set in iteration order
FirstKey(S) == KeyOrder[First({KeyIndex(k) : k \in S})]

\* ObjectModel.form_pair: the exception raised, "ok" when the pair is formed
\* (the pair formed is (key, val) itself)
form_pair(m, key, val) ==
    LET hits == {i \in 1..Len(m.patternProperties) : key \in m.patternProperties[i].regexp}
        bad_hits == {i \in hits : SchemaCall(m.patternProperties[i].schema, val) # "ok"}
    IN IF key \in DOMAIN m.properties /\ SchemaCall(m.properties[key], val) # "ok"
       THEN SchemaCall(m.properties[key], val)
       ELSE IF bad_hits # {}
       THEN SchemaCall(m.patternProperties[First(bad_hits)].schema, val)
       ELSE IF /\ key \notin DOMAIN m.properties /\ hits = {}
               /\ Len(m.additionalProperties) > 0
               /\ SchemaCall(m.additionalProperties[1], val) # "ok"
       THEN SchemaCall(m.additionalProperties[1], val)
       ELSE IF Len(m.propertyNames) = 0 \/ key \in m.propertyNames[1].accepts
       THEN "ok"
       ELSE IF m.propertyNames[1].exc \in {"KeyError", "ValueError"}
       THEN "KeyError" ELSE m.propertyNames[1].exc

\* ObjectModel.__call__: the exception raised, "ok" when val conforms
\* (the dict formed has the pairs of val)
RECURSIVE ObjectModel_call(_, _)
ObjectModel_call(m, val) ==
    LET bad_pairs == {k \in DOMAIN val : form_pair(m, k, val[k]) # "ok"}
        bad_inst == {k \in (DOMAIN val) \cap (DOMAIN m.dep_instance) :
                        ObjectModel_call(m.dep_instance[k], val) # "ok"}
        bad_pres == {k \in (DOMAIN val) \cap (DOMAIN m.dep_presence) :
                        ~(m.dep_presence[k] \subseteq DOMAIN val)}
    IN IF Validator_call(m, val) # "ok" THEN Validator_call(m, val)
       ELSE IF bad_pairs # {}
       THEN LET e == form_pair(m, FirstKey(bad_pairs), val[FirstKey(bad_pairs)])
            IN IF e = "KeyError" THEN "ValueError" ELSE e
       ELSE IF bad_inst # {}
       THEN ObjectModel_call(m.dep_instance[FirstKey(bad_inst)], val)
       ELSE IF bad_pres # {} THEN "ValueError"
       ELSE "ok"

\* ObjectModel.invalid
invalid_update(m, initial, other) == ObjectModel_call(m, DictUpdate(initial, other)) # "ok"
invalid_delete(m, initial, key) == ObjectModel_call(m, DictDel(initial, key)) # "ok"

\* ObjectModel.screen_setitem
ObjectModel_screen_setitem(m, mapping, key, val) ==
    LET e == form_pair(m, key, val)
    IN [key |-> key, val |-> val,
        exc |-> IF e # "ok" THEN e
                ELSE IF ~le_max(m, mapping, 1) THEN "KeyError"
                ELSE IF has_dependencies(m)
                        /\ invalid_update(m, mapping, DictSet(EmptyDict, key, val))
                     THEN "KeyError"
                ELSE "ok"]

\* ObjectModel.screen_moditem
ObjectModel_screen_moditem(m, mapping, key, val) ==
    LET e == form_pair(m, key, val)
    IN [key |-> key, val |-> val,
        exc |-> IF e # "ok" THEN e
                ELSE IF has_dependencies(m)
                        /\ invalid_update(m, mapping, DictSet(EmptyDict, key, val))
                     THEN "KeyError"
                ELSE "ok"]

\* the dependencies branch of ObjectModel.screen_delitem, dropped
ObjectModel_screen_delitem_NoDependencies(m, mapping, key) ==
    IF key \in DOMAIN mapping /\ (key \in m.required \/ ~ge_min(m, mapping, 1))
    THEN "KeyError" ELSE "ok"

\* the mandatory branch of ObjectModel.screen_delitem, dropped
ObjectModel_screen_delitem_NoMandatory(m, mapping, key) ==
    IF key \in DOMAIN mapping
       /\ (~ge_min(m, mapping, 1) \/ (has_dependencies(m) /\ invalid_delete(m, mapping, key)))
    THEN "KeyError" ELSE "ok"

\* ObjectModel.screen_delitem: the exception raised ("ok": key is returned)
ObjectModel_screen_delitem(m, mapping, key) ==
    IF key \in DOMAIN mapping
    THEN IF key \in m.required THEN "KeyError"
         ELSE IF ~ge_min(m, mapping, 1) THEN "KeyError"
         ELSE IF has_dependencies(m) /\ invalid_delete(m, mapping, key) THEN "KeyError"
         ELSE "ok"
    ELSE "ok"

\* ObjectModel.screen_update
ObjectModel_screen_update(m, mapping, other) ==
    LET bad_pairs == {k \in DOMAIN other : form_pair(m, k, other[k]) # "ok"}
    IN [formed |-> other,
        exc |-> IF bad_pairs # {}
                THEN LET e == form_pair(m, FirstKey(bad_pairs), other[FirstKey(bad_pairs)])
                     IN IF e \in {"KeyError", "ValueError"} THEN "ValueError" ELSE e
                ELSE IF ~le_max(m, mapping, Cardinality((DOMAIN other) \ (DOMAIN mapping)))
                     THEN "ValueError"
                ELSE IF has_dependencies(m) /\ invalid_update(m, mapping, other)
                     THEN "ValueError"
                ELSE "ok"]

\* pairs_free with the rule applied per declared trigger key that is present
ObjectModel_pairs_free_ActiveOnly(m, mapping) ==
    LET free == (DOMAIN mapping) \ m.required
        active == (DOMAIN mapping) \cap ((DOMAIN m.dep_instance) \cup (DOMAIN m.dep_presence))
    IN IF ~ge_min(m, mapping, Cardinality(free)) THEN {}
       ELSE IF active # {} THEN {}
       ELSE free

\* ObjectModel.pairs_free
ObjectModel_pairs_free(m, mapping) ==
    LET free == (DOMAIN mapping) \ m.required
    IN IF ~ge_min(m, mapping, Cardinality(free)) THEN {}
       ELSE IF has_dependencies(m) THEN {}
       ELSE free

(***************************************************************************)
(* DictModel (model.py).  A dict model is a record: pair_model (key ->     *)
(* [value_type, mandatory, constant]) and policy_spec.                     *)
(***************************************************************************)
POLICY == {"must-understand", "must-ignore", "must-accept"}

\* DictModel.mandatory
mandatory(m) == {k \in DOMAIN m.pair_model : m.pair_model[k].mandatory}

\* the value type of a pair called with val: a value Schema returns val
\* itself; a DictModel whose pairs have value Schemas (DictModel.__call__)
\* returns the dict it forms from val, which is a dict
value_type_call(value_type, val) ==
    IF "pair_model" \notin DOMAIN value_type
    THEN [exc |-> SchemaCall(value_type, val), val |-> val]
    ELSE LET keys == KeysInOrder(DOMAIN val)
             modelled(k) == k \in DOMAIN value_type.pair_model
             e_pairs == [i \in 1..Len(keys) |->
                           IF modelled(keys[i])
                           THEN SchemaCall(value_type.pair_model[keys[i]].value_type,
                                           val[keys[i]])
                           ELSE IF value_type.policy_spec = "must-understand"
                                THEN "ValueError" ELSE "ok"]
             kept == {k \in DOMAIN val :
                         modelled(k) \/ value_type.policy_spec = "must-accept"}
             e_miss == IF mandatory(value_type) \subseteq kept THEN "ok" ELSE "ValueError"
             exc == FirstExc(e_pairs \o <<e_miss>>)
         IN [exc |-> exc, val |-> IF exc = "ok" THEN [k \in kept |-> val[k]] ELSE val]

\* DictModel.screen_value
screen_value(m, key, val) ==
    IF key \notin DOMAIN m.pair_model THEN [exc |-> "KeyError", val |-> val]
    ELSE value_type_call(m.pair_model[key].value_type, val)

\* DictModel.screen_setitem
DictModel_screen_setitem(m, mapping, key, val) ==
    LET r == screen_value(m, key, val)
    IN [key |-> key, val |-> r.val,
        exc |-> IF r.exc = "KeyError" /\ m.policy_spec = "must-accept" THEN "ok" ELSE r.exc]

\* screen_moditem without the test of the constant flag
DictModel_screen_moditem_NoConstant(m, mapping, key, val) ==
    LET r == screen_value(m, key, val)
    IN [key |-> key, val |-> r.val, exc |-> IF r.exc = "KeyError" THEN "ok" ELSE r.exc]

\* DictModel.screen_moditem
DictModel_screen_moditem(m, mapping, key, val) ==
    LET r == screen_value(m, key, val)
    IN [key |-> key, val |-> r.val,
        exc |-> IF key \in DOMAIN m.pair_model /\ m.pair_model[key].constant THEN "KeyError"
                ELSE IF r.exc = "KeyError" THEN "ok" ELSE r.exc]

\* DictModel.screen_delitem
DictModel_screen_delitem(m, mapping, key) ==
    IF key \in DOMAIN m.pair_model /\ m.pair_model[key].mandatory THEN "KeyError" ELSE "ok"

\* DictModel.screen_update
DictModel_screen_update(m, mapping, other) ==
    LET keys == KeysInOrder(DOMAIN other)
        e_pairs == [i \in 1..Len(keys) |->
                      IF keys[i] \in DOMAIN mapping
                      THEN DictModel_screen_moditem(m, mapping, keys[i], other[keys[i]]).exc
                      ELSE DictModel_screen_setitem(m, mapping, keys[i], other[keys[i]]).exc]
    IN [formed |-> other,
        exc |-> IF FirstExc(e_pairs) # "ok" THEN "ValueError" ELSE "ok"]

\* DictModel.pairs_free
DictModel_pairs_free(m, mapping) == (DOMAIN mapping) \ mandatory(m)

\* DictModel.__call__ keeping unmodelled keys whatever the policy
DictModel_call_KeepUnmodelled(m, val) ==
    LET keys == KeysInOrder(DOMAIN val)
        e_pairs == [i \in 1..Len(keys) |->
                      LET r == screen_value(m, keys[i], val[keys[i]])
                      IN IF r.exc = "KeyError" THEN "ok" ELSE r.exc]
        e_miss == IF mandatory(m) \subseteq DOMAIN val THEN "ok" ELSE "ValueError"
    IN [exc |-> FirstExc(e_pairs \o <<e_miss>>), formed |-> val]

\* DictModel.__call__: the exception raised and the dict formed
DictModel_call(m, val) ==
    LET keys == KeysInOrder(DOMAIN val)
        e_pairs == [i \in 1..Len(keys) |->
                      LET r == screen_value(m, keys[i], val[keys[i]])
                      IN IF r.exc = "KeyError"
                         THEN IF m.policy_spec = "must-understand" THEN "ValueError" ELSE "ok"
                         ELSE r.exc]
        kept == {k \in DOMAIN val :
                    k \in DOMAIN m.pair_model \/ m.policy_spec = "must-accept"}
        formed == [k \in kept |-> IF k \in DOMAIN m.pair_model
                                  THEN screen_value(m, k, val[k]).val ELSE val[k]]
        e_miss == IF mandatory(m) \subseteq DOMAIN formed THEN "ok" ELSE "ValueError"
    IN [exc |-> FirstExc(e_pairs \o <<e_miss>>), formed |-> formed]

(***************************************************************************)
(* The definition of the model of a class (Model.model_spec, policy_spec,  *)
(* _modelled_define).  The model of a class is a record with model_spec,   *)
(* <<>> until it is set, and the pair_model that _define derives from it.  *)
(***************************************************************************)
\* DictModel(None, policy_spec): the model of a class that is only declared
DeclaredModel(policy) ==
    [cls |-> "DictModel", policy_spec |-> policy, pair_model |-> <<>>, model_spec |-> <<>>]

\* Model.defined
Model_defined(m) == m.model_spec # <<>>

\* an argument for model_spec: None, a value that is not a dict, or a dict,
\* which is valid where each of its pairs has a ValueType as value_type
NoSpec == [kind |-> "None", pair_model |-> <<>>, valid |-> FALSE]
AtomicSpec == [kind |-> "atomic", pair_model |-> <<>>, valid |-> FALSE]
DictSpecOf(pair_model, valid) == [kind |-> "dict", pair_model |-> pair_model, valid |-> valid]

\* as a variant of the setter below: a model that is defined is defined again
Model_set_model_spec_Rebind(m, val) ==
    CASE val.kind = "None" -> [exc |-> "ok", model |-> m]
      [] val.kind = "atomic" -> [exc |-> "ValueError", model |-> m]
      [] ~val.valid -> [exc |-> "ValueError", model |-> [m EXCEPT !.model_spec = <<val>>]]
      [] OTHER -> [exc |-> "ok",
                   model |-> [m EXCEPT !.model_spec = <<val>>, !.pair_model = val.pair_model]]

\* the setter of Model.model_spec, with DictModel._define: _define raises
\* ValueError at a pair whose value_type is not a ValueType, after the
\* model spec has been set
Model_set_model_spec(m, val) ==
    CASE Model_defined(m) -> [exc |-> "AlreadyDefinedError", model |-> m]
      [] val.kind = "None" -> [exc |-> "ok", model |-> m]
      [] val.kind = "atomic" -> [exc |-> "ValueError", model |-> m]
      [] ~val.valid -> [exc |-> "ValueError", model |-> [m EXCEPT !.model_spec = <<val>>]]
      [] OTHER -> [exc |-> "ok",
                   model |-> [m EXCEPT !.model_spec = <<val>>, !.pair_model = val.pair_model]]

\* the setter of Model.policy_spec: POLICY(policy)
Model_set_policy_spec(m, policy) ==
    IF policy \in POLICY THEN [exc |-> "ok", model |-> [m EXCEPT !.policy_spec = policy]]
    ELSE [exc |-> "ValueError", model |-> m]

\* _modelled_define: cls.define(model_spec, policy_spec), policy_spec "None"
\* where it is not given
modelled_define(m, model_spec, policy_spec) ==
    LET r == Model_set_model_spec(m, model_spec)
    IN IF r.exc # "ok" \/ policy_spec = "None" THEN r
       ELSE Model_set_policy_spec(r.model, policy_spec)

\* _modelled_init_mutable: cls(val)
modelled_init(m, val) ==
    IF ~Model_defined(m) THEN [exc |-> "NotDefinedError", formed |-> val]
    ELSE DictModel_call(m, val)

(***************************************************************************)
(* The model class of a specialised dict class: 'model_cls' is DictModel   *)
(* by default and ObjectModel for a class built by Object.validator.       *)
(***************************************************************************)
model_call(m, val) ==
    IF m.cls = "ObjectModel"
    THEN [exc |-> ObjectModel_call(m, val), formed |-> val]
    ELSE DictModel_call(m, val)
screen_setitem(m, mapping, key, val) ==
    IF m.cls = "ObjectModel" THEN ObjectModel_screen_setitem(m, mapping, key, val)
    ELSE DictModel_screen_setitem(m, mapping, key, val)
screen_moditem(m, mapping, key, val) ==
    IF m.cls = "ObjectModel" THEN ObjectModel_screen_moditem(m, mapping, key, val)
    ELSE DictModel_screen_moditem(m, mapping, key, val)
screen_delitem(m, mapping, key) ==
    IF m.cls = "ObjectModel" THEN ObjectModel_screen_delitem(m, mapping, key)
    ELSE DictModel_screen_delitem(m, mapping, key)
screen_update(m, mapping, other) ==
    IF m.cls = "ObjectModel" THEN ObjectModel_screen_update(m, mapping, other)
    ELSE DictModel_screen_update(m, mapping, other)
pairs_free(m, mapping) ==
    IF m.cls = "ObjectModel" THEN ObjectModel_pairs_free(m, mapping)
    ELSE DictModel_pairs_free(m, mapping)

(***************************************************************************)
(* The methods ModelledDict gives a specialised dict class (model.py).     *)
(* Each yields the exception raised ("ok" when none) and the dict after.   *)
(***************************************************************************)
\* _modelled_dict_setitem
modelled_dict_setitem(m, self, key, val) ==
    LET r == IF key \in DOMAIN self THEN screen_moditem(m, self, key, val)
             ELSE screen_setitem(m, self, key, val)
    IN [exc |-> r.exc, d |-> IF r.exc = "ok" THEN DictSet(self, r.key, r.val) ELSE self]

\* _modelled_dict_delitem
modelled_dict_delitem(m, self, key) ==
    LET e == screen_delitem(m, self, key)
    IN IF e # "ok" THEN [exc |-> e, d |-> self]
       ELSE IF key \notin DOMAIN self THEN [exc |-> "KeyError", d |-> self]
       ELSE [exc |-> "ok", d |-> DictDel(self, key)]

\* _modelled_dict_clear, the free keys iterated in the order given
RECURSIVE modelled_dict_clear(_, _, _)
modelled_dict_clear(m, self, order) ==
    IF order = <<>> THEN [exc |-> "ok", d |-> self]
    ELSE LET r == modelled_dict_delitem(m, self, Head(order))
         IN IF r.exc # "ok" THEN r ELSE modelled_dict_clear(m, r.d, Tail(order))

\* _modelled_dict_pop
modelled_dict_pop(m, self, key, default) ==
    IF key \in DOMAIN self THEN modelled_dict_delitem(m, self, key)
    ELSE IF default = PyNone THEN [exc |-> "KeyError", d |-> self]
    ELSE [exc |-> "ok", d |-> self]

\* _modelled_dict_popitem, key being the element set.pop() yields
modelled_dict_popitem(m, self, key) == modelled_dict_delitem(m, self, key)

\* _modelled_dict_setdefault
modelled_dict_setdefault(m, self, key, default) ==
    IF key \in DOMAIN self THEN [exc |-> "ok", d |-> self]
    ELSE modelled_dict_setitem(m, self, key, default)

\* update that writes each pair as soon as it is screened
modelled_dict_update_Incremental(m, self, other) ==
    LET keys == KeysInOrder(DOMAIN other)
        ok(k) == IF k \in DOMAIN self THEN screen_moditem(m, self, k, other[k]).exc = "ok"
                 ELSE screen_setitem(m, self, k, other[k]).exc = "ok"
        bad == {i \in 1..Len(keys) : ~ok(keys[i])}
        done == {keys[i] : i \in {j \in 1..Len(keys) : \A b \in bad : j < b}}
    IN [exc |-> IF bad = {} THEN "ok" ELSE "ValueError",
        d |-> DictUpdate(self, [k \in done |-> other[k]])]

\* _modelled_dict_update
modelled_dict_update(m, self, other) ==
    IF DOMAIN other = {} THEN [exc |-> "ok", d |-> self]
    ELSE LET r == screen_update(m, self, other)
         IN [exc |-> r.exc, d |-> IF r.exc = "ok" THEN DictUpdate(self, r.formed) ELSE self]

(***************************************************************************)
(* The models the checks range over.                                       *)
(***************************************************************************)
NoSchemas == [k \in {} |-> SchemaTrue]
NoKeySets == [k \in {} |-> {}]

ValueRules ==
    { [properties |-> NoSchemas, patternProperties |-> <<>>,
       additionalProperties |-> <<>>, propertyNames |-> <<>>],
      [properties |-> [k \in {"foo", "bar"} |-> IF k = "foo" THEN SchemaNumber ELSE SchemaTrue],
       patternProperties |-> <<>>,
       additionalProperties |-> <<SchemaFalse>>, propertyNames |-> <<>>],
      [properties |-> NoSchemas,
       patternProperties |-> <<[regexp |-> {"bar", "baz"}, schema |-> SchemaNumber]>>,
       additionalProperties |-> <<>>,
       propertyNames |-> <<[accepts |-> {"foo", "bar"}, exc |-> "ValueError"]>>] }

\* the schema of a schema-valued dependency: {"properties": {"foo": {"multipleOf": 2}}}
DepSchema ==
    [cls |-> "ObjectModel", policy_spec |-> "must-accept",
     required |-> {}, minProperties |-> {}, maxProperties |-> {},
     properties |-> [k \in {"foo"} |-> SchemaMultipleOf2], patternProperties |-> <<>>,
     additionalProperties |-> <<>>, propertyNames |-> <<>>,
     dep_instance |-> [k \in {} |-> {}], dep_presence |-> NoKeySets]

Dependencies ==
    { [dep_instance |-> [k \in {} |-> DepSchema], dep_presence |-> NoKeySets],
      [dep_instance |-> [k \in {} |-> DepSchema], dep_presence |-> [k \in {"bar"} |-> {"foo"}]],
      [dep_instance |-> [k \in {"bar"} |-> DepSchema], dep_presence |-> NoKeySets],
      [dep_instance |-> [k \in {"bar"} |-> DepSchema], dep_presence |-> [k \in {"baz"} |-> {"foo"}]] }

\* Object.model_and_policy
ObjectModelOf(req, min_, max_, vr, dep) ==
    [cls |-> "ObjectModel",
     policy_spec |-> IF vr.additionalProperties = <<>> THEN "must-accept" ELSE "must-understand",
     required |-> req, minProperties |-> min_, maxProperties |-> max_,
     properties |-> vr.properties, patternProperties |-> vr.patternProperties,
     additionalProperties |-> vr.additionalProperties, propertyNames |-> vr.propertyNames,
     dep_instance |-> dep.dep_instance, dep_presence |-> dep.dep_presence]

PlainRules ==
    [properties |-> NoSchemas, patternProperties |-> <<>>,
     additionalProperties |-> <<>>, propertyNames |-> <<>>]

ObjectModels ==
    { ObjectModelOf(req, min_, max_, PlainRules, dep) :
        req \in {{}, {"foo"}}, min_ \in {{}, {2}}, max_ \in {{}, {2}}, dep \in Dependencies }
    \cup
    { ObjectModelOf(req, {}, {}, vr, dep) :
        req \in {{}, {"foo", "baz"}}, vr \in ValueRules,
        dep \in {dp \in Dependencies : DOMAIN dp.dep_instance = DOMAIN dp.dep_presence
                                       \/ "baz" \in DOMAIN dp.dep_presence} }

\* DictModel._to_pair_model
PairModels ==
    { [value_type |-> SchemaTrue, mandatory |-> FALSE, constant |-> FALSE],
      [value_type |-> SchemaNumber, mandatory |-> TRUE, constant |-> FALSE],
      [value_type |-> SchemaNumber, mandatory |-> FALSE, constant |-> TRUE],
      [value_type |-> SchemaTrue, mandatory |-> TRUE, constant |-> TRUE] }

DictModels ==
    { [cls |-> "DictModel", policy_spec |-> policy,
       pair_model |-> [k \in {"foo", "bar"} |-> IF k = "foo" THEN pm ELSE
                         [value_type |-> SchemaTrue, mandatory |-> FALSE, constant |-> c]]] :
      policy \in POLICY, pm \in PairModels, c \in BOOLEAN }

\* the arguments of define: for model_spec None, a number, a dict with the
\* pair foo, and a dict whose pair has a value_type that is no ValueType;
\* for policy_spec nothing, a policy, and a word that is no policy
DefineSpecs ==
    {NoSpec, AtomicSpec, DictSpecOf(<<>>, FALSE)}
    \cup {DictSpecOf([k \in {"foo"} |-> pm], TRUE) : pm \in PairModels}
DefinePolicies == {"None", "must-accept", "not-supported"}

\* the arguments update() is called with
Others == {o \in Dicts : Cardinality(DOMAIN o) <= MaxOther}

(***************************************************************************)
(* JSON Schema identifiers (identifiers.py, uri.py) and the root Schema's  *)
(* registry (schema.py).  URIs and references are strings.  A document     *)
(* holds the root Schema "R", its definitions "A" and "B" and, optionally, *)
(* "X" at properties/x of "A".                                             *)
(***************************************************************************)
None == "None"

\* every absolute URI here is this prefix followed by one path element
Prefix == "http://h/"
InitialBaseUri == "http://h/u"

startswith(s, p) == Len(s) >= Len(p) /\ SubSeq(s, 1, Len(p)) = p
endswith(s, p) == Len(s) >= Len(p) /\ SubSeq(s, Len(s) - Len(p) + 1, Len(s)) = p

RECURSIVE rstrip(_, _)
rstrip(s, c) == IF endswith(s, c) THEN rstrip(SubSeq(s, 1, Len(s) - 1), c) ELSE s

RECURSIVE lstrip(_, _)
lstrip(s, c) == IF startswith(s, c) THEN lstrip(SubSeq(s, 2, Len(s)), c) ELSE s

\* where the fragment separator of uri is, Len(uri) + 1 if it has none
HashAt(uri) ==
    LET I == {i \in 1..Len(uri) : SubSeq(uri, i, i) = "#"}
    IN IF I = {} THEN Len(uri) + 1 ELSE CHOOSE i \in I : \A j \in I : i <= j

\* urllib.parse.urlsplit: what precedes the fragment, and the fragment
urlsplit(uri) ==
    [path |-> SubSeq(uri, 1, HashAt(uri) - 1),
     fragment |-> SubSeq(uri, HashAt(uri) + 1, Len(uri))]

\* urllib.parse.urlunsplit: an empty fragment, or None, adds nothing
urlunsplit(path, fragment) ==
    IF fragment = None \/ fragment = "" THEN path ELSE path \o "#" \o fragment

\* TypeUriReference.is_fragment
is_fragment(uri) == urlsplit(uri).path = "" /\ urlsplit(uri).fragment # ""

\* TypeAbsoluteUri.__call__: a scheme, no fragment, no trailing '#'
TypeAbsoluteUri(val) ==
    IF startswith(val, Prefix) /\ HashAt(val) > Len(val) THEN "ok" ELSE "ValueError"

\* TypeAbsoluteUri.cast
TypeAbsoluteUri_cast(val) == TypeAbsoluteUri(urlsplit(val).path)

\* TypeAbsoluteUri._graft_path, on the path of dst: its last element is replaced
graft_path(dst, src) == Prefix \o lstrip(urlsplit(src).path, "/")

\* as a variant of graft: the `$id` never changes the base URI
graft_KeepBase(dst, src) ==
    IF TypeAbsoluteUri(dst) # "ok" THEN [exc |-> "ValueError", uri |-> None]
    ELSE [exc |-> "ok", uri |-> dst]

\* TypeAbsoluteUri.graft
graft(dst, src) ==
    IF TypeAbsoluteUri(dst) # "ok" THEN [exc |-> "ValueError", uri |-> None]
    ELSE IF TypeAbsoluteUri(src) = "ok" THEN [exc |-> "ok", uri |-> src]
    ELSE IF is_fragment(src) THEN [exc |-> "ok", uri |-> dst]
    ELSE [exc |-> "ok", uri |-> graft_path(dst, src)]

\* TypeAbsoluteUri.resolve
resolve(dst, src) ==
    IF TypeAbsoluteUri(dst) # "ok" THEN [exc |-> "ValueError", uri |-> None]
    ELSE IF TypeAbsoluteUri(urlsplit(src).path) = "ok" THEN [exc |-> "ok", uri |-> src]
    ELSE IF is_fragment(src)
         THEN [exc |-> "ok", uri |-> urlunsplit(dst, lstrip(src, "#"))]
    ELSE [exc |-> "ok", uri |-> graft_path(dst, src)]

\* LocationIndependentId.__call__: '#', a letter, then no '/'
LocationIndependentId(val) ==
    /\ startswith(val, "#")
    /\ Len(val) > 1
    /\ \A i \in 1..Len(val) : SubSeq(val, i, i) # "/"

\* key_path_to_json_pointer (no token here holds '~' or '/')
RECURSIVE key_path_to_json_pointer(_)
key_path_to_json_pointer(key_path) ==
    IF key_path = <<>> THEN ""
    ELSE "/" \o Head(key_path) \o key_path_to_json_pointer(Tail(key_path))

\* Identifiers.key_path of each Schema of the document
key_path(n) ==
    CASE n = "R" -> <<>>
      [] n = "A" -> <<"definitions", "A">>
      [] n = "B" -> <<"definitions", "B">>
      [] n = "X" -> <<"definitions", "A", "properties", "x">>

\* Schema.ref
ref(n) == "#" \o key_path_to_json_pointer(key_path(n))

\* Schema.absolute_ref
absolute_ref(n, args) == "#" \o key_path_to_json_pointer(key_path(n) \o args)

\* Schema.relative_ref
relative_ref(base, n) ==
    IF key_path(base) # SubSeq(key_path(n), 1, Len(key_path(base)))
    THEN [exc |-> "ValueError", ref |-> None]
    ELSE [exc |-> "ok",
          ref |-> "#" \o key_path_to_json_pointer(
                      SubSeq(key_path(n), Len(key_path(base)) + 1, Len(key_path(n))))]

\* Schema.spec of Schema n in the document
SpecOf(spec, n) ==
    IF n = "R" THEN [kind |-> "dict", id |-> spec.id, ref |-> None] ELSE spec.sub[n]

\* Schema.id_
id_(spec, n) == IF SpecOf(spec, n).kind = "dict" THEN SpecOf(spec, n).id ELSE None

\* the Subschemas _declare finds under Schema n, in the order of the document
Subschemas(spec, n) ==
    IF n = "R" THEN spec.order
    ELSE IF n = "A" /\ spec.sub["A"].kind = "dict" /\ "X" \in DOMAIN spec.sub THEN <<"X">>
    ELSE <<>>

\* Identifiers.uri setter
Identifiers_set_uri(identifiers, uri) ==
    IF identifiers.uri # None THEN [exc |-> "RuntimeError", identifiers |-> identifiers]
    ELSE [exc |-> "ok", identifiers |-> [identifiers EXCEPT !.uri = uri]]

\* Identifiers.define
Identifiers_define(spec, support, n, context_base_uri) ==
    LET id == id_(spec, n)
        base_uri == IF n # "R" \/ id = None THEN context_base_uri ELSE id
        fragment == IF id # None /\ startswith(id, "#") THEN lstrip(id, "#") ELSE None
        uri == IF n = "R" \/ id # None
               THEN urlunsplit(urlsplit(base_uri).path, fragment) ELSE None
        bad == /\ id # None
               /\ IF n = "R"
                  THEN TypeAbsoluteUri(id) # "ok" /\ TypeAbsoluteUri(rstrip(id, "#")) # "ok"
                  ELSE is_fragment(id) /\ support.format /\ ~LocationIndependentId(id)
    IN [exc |-> IF bad THEN "ValueError" ELSE "ok", base_uri |-> base_uri, uri |-> uri]

\* the version of JSON Schema that `$schema` may name
Draft07 == "http://json-schema.org/draft-07/schema#"

\* Schema.__init__, up to identifiers.define: the check of `$schema`
Schema_init(spec, n) ==
    IF SpecOf(spec, n).kind # "dict" \/ spec.version[n] = None THEN "ok"
    ELSE IF n # "R" THEN "ValueError"
    ELSE IF spec.version[n] # Draft07 THEN "ValueError"
    ELSE "ok"

\* RootSchema._declare, up to its call of declare: the Schema created for n
new_Schema(spec, support, n, base_uri) ==
    LET g == IF id_(spec, n) = None THEN [exc |-> "ok", uri |-> base_uri]
             ELSE graft(base_uri, id_(spec, n))
    IN IF g.exc # "ok" THEN [exc |-> g.exc, base_uri |-> None, uri |-> None]
       ELSE IF Schema_init(spec, n) # "ok"
       THEN [exc |-> Schema_init(spec, n), base_uri |-> None, uri |-> None]
       ELSE Identifiers_define(spec, support, n, g.uri)

\* reversed(self._stack), as taken variant: the stack from its bottom
bases_FromBottom(stack) == stack

\* reversed(self._stack): the bases a Schema is registered against, innermost first
bases(stack) == [i \in 1..Len(stack) |-> stack[Len(stack) + 1 - i]]

\* as a variant of the test below: an intrinsic URI is never taken as registered
intrinsic_registered_Never(registry, uri) == FALSE

\* RootSchema.declare: `schema.uri in self._schema`
intrinsic_registered(registry, uri) == uri \in DOMAIN registry

\* RootSchema.declare, the loop registering n against each extrinsic URI
RECURSIVE register_extrinsic(_, _, _, _)
register_extrinsic(registry, identifiers, bs, n) ==
    IF bs = <<>> THEN [exc |-> "ok", registry |-> registry, identifiers |-> identifiers]
    ELSE LET base == Head(bs)
             uri == rstrip(identifiers[base].base_uri, "#") \o relative_ref(base, n).ref
         IN IF uri \in DOMAIN registry
            THEN [exc |-> "KeyError", registry |-> registry, identifiers |-> identifiers]
            ELSE register_extrinsic(
                    registry @@ (uri :> n),
                    IF identifiers[n].uri = None
                    THEN [identifiers EXCEPT ![n] = Identifiers_set_uri(@, uri).identifiers]
                    ELSE identifiers,
                    Tail(bs), n)

\* RootSchema.declare, up to the declaration of the Subschemas of n
declare(registry, stack, identifiers, n) ==
    LET schema == identifiers[n]
        push == identifiers[stack[Len(stack)]].base_uri # schema.base_uri
        pushed == IF push THEN Append(stack, n) ELSE stack
        raised == [exc |-> "KeyError", registry |-> registry, stack |-> pushed,
                   identifiers |-> identifiers, push |-> push]
        intrinsic == IF schema.uri # None THEN (schema.uri :> n) ELSE <<>>
        registered == register_extrinsic(
                         (registry @@ intrinsic) @@ (ref(n) :> n), identifiers, bases(pushed), n)
    IN IF intrinsic_registered(registry, schema.uri) THEN raised
       ELSE IF ref(n) \in DOMAIN registry THEN raised
       ELSE [exc |-> registered.exc, registry |-> registered.registry, stack |-> pushed,
             identifiers |-> registered.identifiers, push |-> push]

\* RootSchema.get_schema with the default Support, whose load_schema raises ValueError
get_schema(registry, key) ==
    IF key \in DOMAIN registry THEN [exc |-> "ok", schema |-> registry[key]]
    ELSE IF TypeAbsoluteUri_cast(key) # "ok" THEN [exc |-> "KeyError", schema |-> None]
    ELSE [exc |-> "ValueError", schema |-> None]

\* as a variant of the lookup below: the reference is resolved against the
\* base URI of the root Schema
get_ref_RootBase(registry, identifiers, n, reference) ==
    LET direct == get_schema(registry, reference)
        uri == resolve(identifiers["R"].base_uri, reference)
    IN IF direct.exc # "KeyError" THEN direct
       ELSE IF uri.exc # "ok" THEN [exc |-> uri.exc, schema |-> None]
       ELSE get_schema(registry, uri.uri)

\* the Schema a `$ref` of Schema n refers to
get_ref(registry, identifiers, n, reference) ==
    LET direct == get_schema(registry, reference)
        uri == resolve(identifiers[n].base_uri, reference)
    IN IF direct.exc # "KeyError" THEN direct
       ELSE IF uri.exc # "ok" THEN [exc |-> uri.exc, schema |-> None]
       ELSE get_schema(registry, uri.uri)

\* Object._subschema for each key of `properties` of Schema n
build_validators(registry, spec, n) ==
    { get_schema(registry, absolute_ref(n, SubSeq(key_path(s), Len(key_path(n)) + 1,
                                                   Len(key_path(s))))).schema :
        s \in {c \in {"X"} : n = "A" /\ c \in DOMAIN spec.sub} }

NoImplementation == [kind |-> None]

\* rules[key](schema.spec) over the keys of the rules: the validation
\* keywords of Schema n screened by the model of their type
validation(spec, n) ==
    CASE spec.rule[n] = "minimum:x" -> "TypeError"
      [] spec.rule[n] = "multipleOf:0" -> "ValueError"
      [] OTHER -> "ok"

\* as a variant of the rule below: the exception of the rule is not wrapped
rules_conform_Unwrapped(spec, n) == validation(spec, n)

\* RootSchema.build_validators: a keyword that does not conform is a SchemaError
rules_conform(spec, n) ==
    IF validation(spec, n) \in {"TypeError", "ValueError"} THEN "SchemaError" ELSE "ok"

\* as a variant of _define: a `$ref` takes the implementation its target has now
_define_Eager(registry, identifiers, implementation, spec, n) ==
    LET target == get_ref(registry, identifiers, n, SpecOf(spec, n).ref)
    IN CASE SpecOf(spec, n).kind = "true" -> [exc |-> "ok", implementation |-> [kind |-> "_TRUE"]]
         [] SpecOf(spec, n).kind = "false" -> [exc |-> "ok", implementation |-> [kind |-> "_FALSE"]]
         [] SpecOf(spec, n).kind = "dict" /\ SpecOf(spec, n).ref # None ->
              IF target.exc # "ok" THEN [exc |-> target.exc, implementation |-> NoImplementation]
              ELSE [exc |-> "ok", implementation |-> implementation[target.schema]]
         [] OTHER ->
              IF rules_conform(spec, n) # "ok"
              THEN [exc |-> rules_conform(spec, n), implementation |-> NoImplementation]
              ELSE [exc |-> "ok",
                    implementation |-> [kind |-> "validators", schema |-> n,
                                        subschemas |-> build_validators(registry, spec, n)]]

\* RootSchema._define with the default Support, which has no optimiser
_define(registry, identifiers, implementation, spec, n) ==
    LET target == get_ref(registry, identifiers, n, SpecOf(spec, n).ref)
    IN CASE SpecOf(spec, n).kind = "true" -> [exc |-> "ok", implementation |-> [kind |-> "_TRUE"]]
         [] SpecOf(spec, n).kind = "false" -> [exc |-> "ok", implementation |-> [kind |-> "_FALSE"]]
         [] SpecOf(spec, n).kind = "dict" /\ SpecOf(spec, n).ref # None ->
              IF target.exc # "ok" THEN [exc |-> target.exc, implementation |-> NoImplementation]
              ELSE [exc |-> "ok", implementation |-> [kind |-> "Schema", schema |-> target.schema]]
         [] OTHER ->
              IF rules_conform(spec, n) # "ok"
              THEN [exc |-> rules_conform(spec, n), implementation |-> NoImplementation]
              ELSE [exc |-> "ok",
                    implementation |-> [kind |-> "validators", schema |-> n,
                                        subschemas |-> build_validators(registry, spec, n)]]

\* as a variant of the set below: one compilation for each URI of the registry
define_todo_PerUri(registry) ==
    [n \in {registry[k] : k \in DOMAIN registry} |->
        Cardinality({k \in DOMAIN registry : registry[k] = n})]

\* RootSchema.define: frozenset(self._schema.values()), each Schema once
define_todo(registry) == [n \in {registry[k] : k \in DOMAIN registry} |-> 1]

\* the values a Schema of these documents is applied to: a number, and an
\* object whose member x is that number
ApplyValues == {"1", "{x:1}"}

\* calling the implementation of Schema n with val: "ok" (the value is
\* returned) or the exception raised; seen are the Schemas whose call is in
\* progress, and a Schema that delegates back to one of them never returns
RECURSIVE Schema_call(_, _, _, _)
Schema_call(implementation, n, val, seen) ==
    LET impl == implementation[n]
    IN CASE impl = NoImplementation -> "TypeError"
         [] n \in seen -> "RecursionError"
         [] impl.kind = "_TRUE" -> "ok"
         [] impl.kind = "_FALSE" -> "ValueError"
         [] impl.kind = "Schema" -> Schema_call(implementation, impl.schema, val, seen \cup {n})
         [] OTHER ->
              IF val = "{x:1}" /\ impl.subschemas # {}
              THEN Schema_call(implementation, CHOOSE s \in impl.subschemas : TRUE, "1",
                               seen \cup {n})
              ELSE "ok"

\* Schema.cast: self._implementation.cast(val)
RECURSIVE Schema_cast(_, _, _, _)
Schema_cast(implementation, n, val, seen) ==
    LET impl == implementation[n]
    IN CASE impl = NoImplementation -> "AttributeError"
         [] n \in seen -> "RecursionError"
         [] impl.kind = "Schema" -> Schema_cast(implementation, impl.schema, val, seen \cup {n})
         [] impl.kind = "_TRUE" -> "ok"
         [] impl.kind = "_FALSE" -> "ValueError"
         [] OTHER ->
              IF val = "{x:1}" /\ impl.subschemas # {}
              THEN Schema_call(implementation, CHOOSE s \in impl.subschemas : TRUE, "1",
                               seen \cup {n})
              ELSE "ok"

\* Schema.validate: only TypeError and ValueError are taken as "not valid"
Schema_validate(implementation, n, val) ==
    LET r == Schema_call(implementation, n, val, {})
    IN CASE r = "ok" -> "True"
         [] r \in {"TypeError", "ValueError"} -> "False"
         [] OTHER -> r

\* Schema.debug: self._implementation.debug(val, results)
RECURSIVE Schema_debug(_, _, _, _)
Schema_debug(implementation, n, val, seen) ==
    LET impl == implementation[n]
    IN CASE impl = NoImplementation -> "AttributeError"
         [] n \in seen -> "RecursionError"
         [] impl.kind = "Schema" -> Schema_debug(implementation, impl.schema, val, seen \cup {n})
         [] impl.kind = "_TRUE" -> "True"
         [] impl.kind = "_FALSE" -> "False"
         [] OTHER ->
              IF val = "{x:1}" /\ impl.subschemas # {}
              THEN Schema_debug(implementation, CHOOSE s \in impl.subschemas : TRUE, "1",
                                seen \cup {n})
              ELSE "True"

\* the documents: the `$id` of the root, the order of its definitions, and
\* for each Subschema true, false or a dict with its `$id` and `$ref`
DictSpec(id, reference) == [kind |-> "dict", id |-> id, ref |-> reference]
BoolSpecs == {[kind |-> "true", id |-> None, ref |-> None],
              [kind |-> "false", id |-> None, ref |-> None]}
SpecsA ==
    BoolSpecs \cup {DictSpec(id, reference) :
                      id \in {None, "#foo", "o", "#/definitions/B"},
                      reference \in {None, "#/definitions/B", "#foo"}}
SpecsB ==
    BoolSpecs \cup {DictSpec(id, reference) :
                      id \in {None, "#foo", "o"},
                      reference \in {None, "#/definitions/A", "#foo"}}
SpecsX ==
    {[kind |-> "true", id |-> None, ref |-> None]}
    \cup {DictSpec(id, None) : id \in {None, "#foo"}}
Schemas == {"R", "A", "B", "X"}

\* a document none of whose Schemas has the keyword
NoKeyword == [n \in Schemas |-> None]

Specs ==
    { [id |-> id, order |-> order, sub |-> sub, version |-> NoKeyword, rule |-> NoKeyword] :
        id \in {None, "http://h/v", "http://h/v#"},
        order \in {<<"A", "B">>, <<"B", "A">>},
        sub \in { ("A" :> a) @@ ("B" :> b) : a \in SpecsA, b \in SpecsB }
                \cup { ("A" :> a) @@ ("B" :> b) @@ ("X" :> x) :
                         a \in SpecsA \ BoolSpecs, b \in SpecsB, x \in SpecsX } }

\* the documents with errors of authoring: `$schema` at the root and at A,
\* and a validation keyword at each Schema
AuthorSpecs ==
    { [id |-> None, order |-> <<"A", "B">>, sub |-> ("A" :> a) @@ ("B" :> b),
       version |-> [NoKeyword EXCEPT !["R"] = vr, !["A"] = va],
       rule |-> [NoKeyword EXCEPT !["R"] = rr, !["A"] = ra, !["B"] = rb]] :
        a \in {[kind |-> "true", id |-> None, ref |-> None], DictSpec(None, None),
               DictSpec("o", None), DictSpec("#foo", None), DictSpec(None, "#foo"),
               DictSpec(None, "#/definitions/B")},
        b \in {[kind |-> "false", id |-> None, ref |-> None], DictSpec(None, None),
               DictSpec("#foo", None)},
        vr \in {None, Draft07, "http://json-schema.org/draft-04/schema#"},
        va \in {None, Draft07},
        rr \in {None, "minimum:x"},
        ra \in {None, "minimum:1", "minimum:x", "multipleOf:0"},
        rb \in {None, "multipleOf:0"} }


(***************************************************************************)
(* The implementation of a Schema built from its validation keywords      *)
(* (_ImplExplicit, _ImplImplicit, Validator, TypeValidator, ObjectModel). *)
(* A value is a number n, a string of length n, or an object with at most *)
(* the member x; a Schema is true, false, or a dict with `type`,          *)
(* `minimum` and the Schema of `properties` at x, each given as a         *)
(* sequence that is empty where the keyword is absent.                    *)
(***************************************************************************)
Scalar(kind, n) == [kind |-> kind, n |-> n, x |-> <<>>]
Object(x) == [kind |-> "object", n |-> 0, x |-> x]

BoolSchema(b) == [bool |-> b, type |-> <<>>, minimum |-> <<>>, properties |-> <<>>]
DictSchema(type, minimum, properties) ==
    [bool |-> "dict", type |-> type, minimum |-> minimum, properties |-> properties]

\* TypeValidator.check: the value is of the primitive type of the validator
check(type, v) == v.kind = type

\* the function of `minimum` applied to v: Python compares a number with a
\* number only
minimum_func(min_, v) ==
    IF v.kind # "number" THEN "TypeError" ELSE IF min_ <= v.n THEN "True" ELSE "False"

\* TYPE_TYPE.schema_types and the include functions of RootSchema._define:
\* the types with a validator, in the order of TYPE_VALIDATION
type_validators(s) ==
    IF s.type # <<>> THEN s.type
    ELSE (IF s.minimum # <<>> THEN <<"number">> ELSE <<>>)
         \o (IF s.properties # <<>> THEN <<"object">> ELSE <<>>)

\* as a variant of the choice below: the first validator, whatever the value
first_checked_Unchecked(types, v) == types

\* the first validator of types whose check the value passes, if any
first_checked(types, v) == SelectSeq(types, LAMBDA t : check(t, v))

\* Schema.__call__ on a Schema with validators: _ImplExplicit.__call__ or
\* _ImplImplicit.__call__, with TypeValidator.__call__ and, for an object,
\* ObjectModel.__call__, which lets the exception of a member pass
RECURSIVE Impl_call(_, _)
Impl_call(s, v) ==
    LET hit == first_checked(type_validators(s), v)
        func == IF s.minimum = <<>> THEN "True" ELSE minimum_func(s.minimum[1], v)
    IN CASE s.bool = "true" -> "ok"
         [] s.bool = "false" -> "ValueError"
         [] hit = <<>> -> IF s.type # <<>> THEN "TypeError" ELSE "ok"
         [] hit[1] = "number" ->
              CASE func = "True" -> "ok" [] func = "False" -> "ValueError" [] OTHER -> func
         [] hit[1] = "object" ->
              IF s.properties # <<>> /\ v.x # <<>> THEN Impl_call(s.properties[1], v.x[1])
              ELSE "ok"
         [] OTHER -> "ok"

\* Results.assertion: keyword of the Schema at uri gave result for the value
\* at pointer
Assertion(pointer, uri, keyword, result) ==
    [pointer |-> pointer, schema |-> uri, keyword |-> keyword, result |-> result]

\* what debug hands back: the boolean it returns, or the exception it
\* raises, and the assertions it has recorded
Debugged(exc, ret, results) == [exc |-> exc, ret |-> ret, results |-> results]

\* Schema.debug on a Schema with validators: _ImplExplicit.debug or
\* _ImplImplicit.debug, with Validator.debug and ObjectModel.debug; uri is
\* the URI of the Schema, which is the root Schema or its Subschema at
\* `properties` x, and pointer the key path of the value
RECURSIVE Impl_debug(_, _, _, _)
Impl_debug(s, v, pointer, uri) ==
    LET hit == first_checked(type_validators(s), v)
        explicit == IF s.type # <<>> THEN {Assertion(pointer, uri, "type", hit # <<>>)}
                    ELSE {}
        func == IF s.minimum = <<>> THEN "True" ELSE minimum_func(s.minimum[1], v)
        recorded == IF s.minimum = <<>> THEN {}
                    ELSE {Assertion(pointer, uri, "minimum", func = "True")}
        member == Impl_debug(s.properties[1], v.x[1], pointer \o "/x",
                             uri \o "#/properties/x")
    IN CASE s.bool = "true" -> Debugged("ok", TRUE, {})
         [] s.bool = "false" -> Debugged("ok", FALSE, {})
         [] hit = <<>> -> Debugged("ok", s.type = <<>>, explicit)
         [] hit[1] = "number" ->
              IF func \notin {"True", "False"} THEN Debugged(func, FALSE, {})
              ELSE Debugged("ok", func = "True", recorded \cup explicit)
         [] hit[1] = "object" ->
              IF ~check("object", v) THEN Debugged("ok", FALSE, explicit)
              ELSE IF s.properties # <<>> /\ v.x # <<>>
              THEN IF member.exc # "ok" THEN member
                   ELSE Debugged("ok", member.ret,
                                 member.results \cup explicit
                                 \cup {Assertion(pointer, uri, "properties", member.ret)})
              ELSE Debugged("ok", TRUE, explicit)
         [] OTHER -> Debugged("ok", TRUE, explicit)

\* the Schemas of one level and of two, and the values they are applied to
LeafSchemas ==
    {BoolSchema("true"), BoolSchema("false")}
    \cup {DictSchema(t, m, <<>>) : t \in {<<>>, <<"number">>, <<"string">>, <<"object">>},
                                  m \in {<<>>, <<1>>}}
DebugSchemas ==
    LeafSchemas
    \cup {DictSchema(t, m, <<p>>) : t \in {<<>>, <<"number">>, <<"string">>, <<"object">>},
                                   m \in {<<>>, <<1>>}, p \in LeafSchemas}
Scalars == {Scalar("number", n) : n \in 0..1} \cup {Scalar("string", 1)}
DebugValues == Scalars \cup {Object(<<>>)} \cup {Object(<<v>>) : v \in Scalars}

(***************************************************************************)
(* OneOfValidator (jsonschema/validators/oneof.py).  Each Subschema of     *)
(* `oneOf` is {"type": "number", "minimum": lo, "maximum": hi}.            *)
(***************************************************************************)
\* the largest number of a range or a value, and the most Subschemas of `oneOf`
MaxNum == 3
MaxSubschemas == 3

\* schema(val) for a Subschema of `oneOf`
Range_call(r, v) ==
    IF v.kind # "number" THEN "TypeError"
    ELSE IF r.lo <= v.n /\ v.n <= r.hi THEN "ok" ELSE "ValueError"

\* what the call hands back: the exception if any, the Subschema whose
\* result is returned, and the Subschemas that have been called
OneOfResult(exc, accepted, evaluated) ==
    [exc |-> exc, accepted |-> accepted, evaluated |-> evaluated]

\* as a variant of the loop below: the count of valid Subschemas is not
\* tested in the loop
OneOfValidator_loop_AnyOf(schemas, i, v, valid, accepted) ==
    LET hits == {j \in 1..Len(schemas) : Range_call(schemas[j], v) = "ok"}
    IN IF hits = {} THEN OneOfResult("ValueError", 0, Len(schemas))
       ELSE OneOfResult("ok", CHOOSE j \in hits : \A k \in hits : k <= j, Len(schemas))

\* the loop of OneOfValidator.__call__ from Subschema i on, with valid
\* Subschemas counted so far and the last of them accepted
RECURSIVE OneOfValidator_loop(_, _, _, _, _)
OneOfValidator_loop(schemas, i, v, valid, accepted) ==
    IF i > Len(schemas)
    THEN IF valid = 0 THEN OneOfResult("ValueError", accepted, Len(schemas))
         ELSE OneOfResult("ok", accepted, Len(schemas))
    ELSE IF Range_call(schemas[i], v) \in {"TypeError", "ValueError"}
    THEN OneOfValidator_loop(schemas, i + 1, v, valid, accepted)
    ELSE IF valid + 1 > 1 THEN OneOfResult("ValueError", i, i)
    ELSE OneOfValidator_loop(schemas, i + 1, v, valid + 1, i)

\* OneOfValidator.__call__
OneOfValidator_call(schemas, v) == OneOfValidator_loop(schemas, 1, v, 0, 0)

\* OneOfValidator.debug: every Subschema is debugged
OneOfValidator_debug(schemas, v) ==
    Cardinality({j \in 1..Len(schemas) : Range_call(schemas[j], v) = "ok"}) = 1

Ranges == {[lo |-> lo, hi |-> hi] : lo \in 0..MaxNum, hi \in 0..MaxNum}
SeqsUpTo(S, n) == UNION {[1..k -> S] : k \in 1..n}
OneOfSchemas == SeqsUpTo({r \in Ranges : r.lo <= r.hi}, MaxSubschemas)
OneOfValues == {Scalar("number", n) : n \in 0..MaxNum} \cup {Scalar("string", 1)}

(***************************************************************************)
(* ObjectModel.default_value (jsonschema/validators/object.py).  The model *)
(* has the Schema of `properties` at x, if any, the Schemas of            *)
(* `patternProperties` in their order, each with the keys its regular      *)
(* expression finds, and the Schema of `additionalProperties`, if any.  A  *)
(* Schema is given by its `default`: <<>> where it declares none.          *)
(***************************************************************************)
\* the most Schemas of `patternProperties`
MaxPatterns == 2

DefaultKeys == {"x", "y"}

\* Schema.default of the Schema with this `default`
Schema_default(default) ==
    IF default = <<>> THEN [exc |-> "KeyError", val |-> 0]
    ELSE [exc |-> "ok", val |-> default[1]]

\* as a variant of the loop below: the first default found is taken
pattern_defaults_First(patterns, i, key, defaults) ==
    LET found == SelectSeq(patterns, LAMBDA q : key \in q.hits /\ q.default # <<>>)
    IN [exc |-> "ok",
        defaults |-> IF found = <<>> THEN <<>> ELSE <<found[1].default[1]>>]

\* the loop of default_value over `patternProperties` from the i-th on:
\* the defaults collected, or KeyError at the second
RECURSIVE pattern_defaults(_, _, _, _)
pattern_defaults(patterns, i, key, defaults) ==
    IF i > Len(patterns) THEN [exc |-> "ok", defaults |-> defaults]
    ELSE IF key \notin patterns[i].hits \/ Schema_default(patterns[i].default).exc # "ok"
    THEN pattern_defaults(patterns, i + 1, key, defaults)
    ELSE IF Len(defaults) + 1 > 1 THEN [exc |-> "KeyError", defaults |-> defaults]
    ELSE pattern_defaults(patterns, i + 1, key,
                          Append(defaults, Schema_default(patterns[i].default).val))

\* ObjectModel.default_value
ObjectModel_default_value(m, key) ==
    LET own == IF key = "x" /\ m.properties # <<>> THEN Schema_default(m.properties[1])
               ELSE [exc |-> "KeyError", val |-> 0]
        found == pattern_defaults(m.patternProperties, 1, key, <<>>)
    IN IF own.exc = "ok" THEN own
       ELSE IF found.exc # "ok" THEN [exc |-> found.exc, val |-> 0]
       ELSE IF found.defaults # <<>> THEN [exc |-> "ok", val |-> found.defaults[1]]
       ELSE IF m.additionalProperties # <<>> THEN Schema_default(m.additionalProperties[1])
       ELSE [exc |-> "KeyError", val |-> 0]

\* the models: `properties` at x absent, without a default or with 0;
\* patterns with no default, 1 or 2; `additionalProperties` absent,
\* without a default or with 3
Patterns ==
    {[hits |-> h, default |-> dflt] : h \in (SUBSET DefaultKeys) \ {{}},
                                      dflt \in {<<>>, <<1>>, <<2>>}}
DefaultModels ==
    {[properties |-> pr, patternProperties |-> pp, additionalProperties |-> ap] :
        pr \in {<<>>, <<<<>>>>, <<<<0>>>>},
        pp \in {<<>>} \cup SeqsUpTo(Patterns, MaxPatterns),
        ap \in {<<>>, <<<<>>>>, <<<<3>>>>}}

(***************************************************************************)
(* `uniqueItems` (jsonschema/validators/array.py) and the equality of      *)
(* values (validators/validator.py).  An item is a number, a boolean (n is *)
(* 1 for true and 0 for false) or an array of one such item.               *)
(***************************************************************************)
\* the most items of an array
MaxItems == 3

Array(x) == [kind |-> "array", n |-> 0, x |-> x]

\* val1 == val2 in Python: a boolean is the number 1 or 0, and arrays are
\* equal item by item
RECURSIVE py_eq(_, _)
py_eq(val1, val2) ==
    IF val1.kind = "array" \/ val2.kind = "array"
    THEN /\ val1.kind = val2.kind
         /\ Len(val1.x) = Len(val2.x)
         /\ \A i \in 1..Len(val1.x) : py_eq(val1.x[i], val2.x[i])
    ELSE val1.n = val2.n

\* equal: values equal in Python that are both booleans, both numbers that
\* are not booleans, or arrays whose items are equal in this sense
RECURSIVE equal(_, _)
equal(val1, val2) ==
    /\ py_eq(val1, val2)
    /\ IF val1.kind # "array" /\ val2.kind # "array"
       THEN (val1.kind = "boolean") = (val2.kind = "boolean")
       ELSE \A i \in 1..Len(val1.x) : equal(val1.x[i], val2.x[i])

\* idx + val[idx:].index(item), with positions counted from 1: the first
\* position from idx on whose item is equal to item in Python, 0 if none
index_from(v, idx, item) ==
    LET found == {j \in idx..Len(v) : py_eq(v[j], item)}
    IN IF found = {} THEN 0 ELSE CHOOSE j \in found : \A k \in found : j <= k

\* the loop of the validator of `uniqueItems`, at the item at position idx
RECURSIVE unique_from(_, _)
unique_from(v, idx) ==
    IF idx >= Len(v) THEN TRUE
    ELSE LET dup == index_from(v, idx + 1, v[idx])
         IN IF dup # 0 /\ equal(v[idx], v[dup]) THEN FALSE
            ELSE unique_from(v, idx + 1)

\* build_validator_unique(True)
validator_unique(v) == unique_from(v, 1)

Items ==
    LET scalars == {Scalar(k, n) : k \in {"number", "boolean"}, n \in 0..1}
    IN scalars \cup {Array(<<i>>) : i \in scalars}
Arrays == {<<>>} \cup SeqsUpTo(Items, MaxItems)

(***************************************************************************)
(* IndexSupport (jsonschema/index.py): external Schemas are loaded from    *)
(* the files of an index.  A document is known by the name of its file; a  *)
(* URI is known by the name of the file the index gives for it, and "z" is *)
(* a URI that is not in the index.                                         *)
(***************************************************************************)
Files == {"a", "b", "c"}
Uris == Files \cup {"z"}

\* self._index: the file of each URI of the index
IndexOf == [u \in Files |-> u]

\* the elements of a sequence
Range(seq) == {seq[i] : i \in 1..Len(seq)}

\* as a variant of load_schema: a file being loaded is loaded again
load_schema_NoStack(roots, load_stack, uri) ==
    IF uri \notin DOMAIN IndexOf THEN [exc |-> "ValueError", load |-> FALSE, file |-> None]
    ELSE IF IndexOf[uri] \in roots THEN [exc |-> "ok", load |-> FALSE, file |-> IndexOf[uri]]
    ELSE [exc |-> "ok", load |-> TRUE, file |-> IndexOf[uri]]

\* IndexSupport.load_schema, up to its call of RootSchema.load: the
\* exception raised, whether the file is to be loaded, and the file
load_schema(roots, load_stack, uri) ==
    IF uri \notin DOMAIN IndexOf THEN [exc |-> "ValueError", load |-> FALSE, file |-> None]
    ELSE IF IndexOf[uri] \in roots THEN [exc |-> "ok", load |-> FALSE, file |-> IndexOf[uri]]
    ELSE IF IndexOf[uri] \in Range(load_stack)
         THEN [exc |-> "RuntimeError", load |-> FALSE, file |-> IndexOf[uri]]
    ELSE [exc |-> "ok", load |-> TRUE, file |-> IndexOf[uri]]

\* the most URIs of other documents that the `$ref`s of one document name
MaxRefs == 2

\* the documents: for each file the URIs of other documents its `$ref`s name
Documents == {doc \in [Files -> SUBSET Uris] : \A f \in Files : Cardinality(doc[f]) <= MaxRefs}

(***************************************************************************)
(* The state: one specialised dict class (its model) and one instance d of *)
(* it; last is the last call made on d and how it ended; held records, for *)
(* each constant key that has been set, the value it was first set to.     *)
(***************************************************************************)
VARIABLES model, d, last, held

\* the root Schema under construction (see below)
VARIABLES spec, support, registry, stack, identifiers, pending,
          implementation, defined, todo, phase, error

\* an IndexSupport: the documents of its index, each with the URIs its
\* `$ref`s name in other documents; _roots; _stack; the calls of
\* RootSchema.load in progress; and how the last call of the application ended
VARIABLES documents, roots, load_stack, frames, raised

loadvars == <<documents, roots, load_stack, frames, raised>>

\* a Schema applied to a value: the Schema or the validator, the value or
\* the arguments, and what the application returned, raised and recorded
VARIABLES subject, input, outcome

evalvars == <<subject, input, outcome>>

\* the state of the parts of the program that an action of another part
\* leaves alone
elsewhere == <<loadvars, evalvars>>

vars == <<model, d, last, held, spec, support, registry, stack, identifiers, pending,
          implementation, defined, todo, phase, error, elsewhere>>

NoKey == "-"
Call(op, key, keys, exc) == [op |-> op, key |-> key, keys |-> keys, exc |-> exc]

\* DictModel.is_constant over the keys in the model (an ObjectModel has no constant pairs)
constant(m) ==
    IF m.cls = "DictModel" THEN {k \in DOMAIN m.pair_model : m.pair_model[k].constant}
    ELSE {}

\* the value each constant key was first set to, given those recorded in h
Hold(h, m, mapping) ==
    [k \in DOMAIN h \cup (constant(m) \cap DOMAIN mapping) |->
        IF k \in DOMAIN h THEN h[k] ELSE mapping[k]]

\* what a call on d leaves alone, and the record of the constant keys set
Kept(mapping) ==
    /\ held' = Hold(held, model, mapping)
    /\ UNCHANGED <<elsewhere, model, spec, support, registry, stack, identifiers, pending,
                   implementation, defined, todo, phase, error>>

\* no modelled dict is in use
NoModelledDict ==
    /\ model = [cls |-> None] /\ d = EmptyDict /\ held = EmptyDict
    /\ last = [op |-> None, key |-> "-", keys |-> {}, exc |-> "ok"]

\* no IndexSupport is in use
NoIndexSupport ==
    /\ documents = <<>> /\ roots = {} /\ load_stack = <<>> /\ frames = <<>>
    /\ raised = "None"

\* nothing is being applied to a value
NoOutcome == [op |-> "None", exc |-> "ok", ret |-> FALSE, results |-> {}]
NoEvaluation == subject = <<>> /\ input = <<>> /\ outcome = NoOutcome

\* no root Schema is under construction
NoRootSchema ==
    /\ spec = [id |-> None, order |-> <<>>, sub |-> <<>>]
    /\ support = [format |-> TRUE]
    /\ registry = <<>> /\ stack = <<>> /\ identifiers = <<>> /\ pending = <<>>
    /\ implementation = <<>> /\ defined = <<>> /\ todo = <<>>
    /\ phase = None /\ error = None

\* _modelled_init_mutable: d = cls(val)
Construct(models) ==
    /\ model \in models
    /\ \E val \in Dicts :
          /\ model_call(model, val).exc = "ok"
          /\ d = model_call(model, val).formed
          /\ last = Call("init", NoKey, DOMAIN val, "ok")
    /\ held = Hold(EmptyDict, model, d)
    /\ NoRootSchema
    /\ NoIndexSupport
    /\ NoEvaluation

\* d[key] = val
SetItem(key, val) ==
    LET r == modelled_dict_setitem(model, d, key, val)
    IN /\ d' = r.d
       /\ last' = Call("setitem", key, {}, r.exc)
       /\ Kept(r.d)

\* del d[key]
DelItem(key) ==
    LET r == modelled_dict_delitem(model, d, key)
    IN /\ d' = r.d
       /\ last' = Call("delitem", key, {}, r.exc)
       /\ Kept(r.d)

\* d.clear()
Clear ==
    \E order \in Orders(pairs_free(model, d)) :
        LET r == modelled_dict_clear(model, d, order)
        IN /\ d' = r.d
           /\ last' = Call("clear", NoKey, {}, r.exc)
           /\ Kept(r.d)

\* d.pop(key)
Pop(key) ==
    LET r == modelled_dict_pop(model, d, key, PyNone)
    IN /\ d' = r.d
       /\ last' = Call("pop", key, {}, r.exc)
       /\ Kept(r.d)

\* d.pop(key, default)
PopDefault(key, default) ==
    LET r == modelled_dict_pop(model, d, key, default)
    IN /\ d' = r.d
       /\ last' = Call("pop_default", key, {}, r.exc)
       /\ Kept(r.d)

\* d.popitem()
PopItem ==
    \/ /\ pairs_free(model, d) = {}
       /\ d' = d
       /\ last' = Call("popitem", NoKey, {}, "KeyError")
       /\ Kept(d)
    \/ \E key \in pairs_free(model, d) :
          LET r == modelled_dict_popitem(model, d, key)
          IN /\ d' = r.d
             /\ last' = Call("popitem", key, {}, r.exc)
             /\ Kept(r.d)

\* d.setdefault(key) and d.setdefault(key, default)
SetDefault(key, default) ==
    LET r == modelled_dict_setdefault(model, d, key, default)
    IN /\ d' = r.d
       /\ last' = Call("setdefault", key, {}, r.exc)
       /\ Kept(r.d)

\* d.update(other)
Update(other) ==
    LET r == modelled_dict_update(model, d, other)
    IN /\ d' = r.d
       /\ last' = Call("update", NoKey, DOMAIN other, r.exc)
       /\ Kept(r.d)

NextDict ==
    \/ \E key \in Keys, val \in AllValues : SetItem(key, val)
    \/ \E key \in Keys : DelItem(key)
    \/ Clear
    \/ \E key \in Keys : Pop(key)
    \/ \E key \in Keys, default \in Numbers : PopDefault(key, default)
    \/ PopItem
    \/ \E key \in Keys, default \in AllValues : SetDefault(key, default)
    \/ \E other \in Others : Update(other)

\* instances of classes whose model is a DictModel
InitDict == Construct(DictModels)
SpecDict == InitDict /\ [][NextDict]_vars

\* instances of classes built by Object.validator (model_cls ObjectModel)
InitObject == Construct(ObjectModels)
SpecObject == InitObject /\ [][NextDict]_vars

(***************************************************************************)
(* The construction of a RootSchema: RootSchema.__init__ declares every    *)
(* Schema of the document and then defines every registered Schema.        *)
(* pending holds the calls of _declare still to be made and the returns of *)
(* declare still to come, todo the Schemas define is still to compile.     *)
(***************************************************************************)
\* the identifiers of a Schema: Identifiers._base_uri and Identifiers._uri
Identifiers(r) == [base_uri |-> r.base_uri, uri |-> r.uri]

Frame(op, n, base_uri) == [op |-> op, schema |-> n, base_uri |-> base_uri]

\* RootSchema.__init__ for a document of specs, up to self.declare(self); an
\* exception of Schema.__init__ leaves it at once
RootSchema_init(specs) ==
    /\ spec \in specs
    /\ support \in [format : BOOLEAN]
    /\ registry = <<>>
    /\ stack = <<"R">>
    /\ identifiers = ("R" :> Identifiers(Identifiers_define(spec, support, "R", InitialBaseUri)))
    /\ pending = IF Schema_init(spec, "R") = "ok" THEN <<Frame("declare", "R", None)>> ELSE <<>>
    /\ implementation = ("R" :> NoImplementation)
    /\ defined = ("R" :> 0)
    /\ todo = <<>>
    /\ phase = IF Schema_init(spec, "R") = "ok" THEN "declaring" ELSE "failed"
    /\ error = IF Schema_init(spec, "R") = "ok" THEN None ELSE Schema_init(spec, "R")
    /\ model = [cls |-> None]
    /\ d = EmptyDict
    /\ last = Call(None, NoKey, {}, "ok")
    /\ held = EmptyDict
    /\ NoIndexSupport
    /\ NoEvaluation

InitGraph == RootSchema_init(Specs)

\* an exception leaves RootSchema.__init__: there is no root Schema to use
Raise(e) ==
    /\ phase' = "failed"
    /\ error' = e
    /\ pending' = <<>>

\* the calls declare(n) makes for the Subschemas of n, then its pop of the stack
Continue(n, push, base_uri) ==
    LET subs == Subschemas(spec, n)
        rest == [i \in 1..Len(subs) |-> Frame("declare", subs[i], base_uri)]
                \o (IF push THEN <<Frame("pop", n, None)>> ELSE <<>>)
                \o Tail(pending)
    IN /\ pending' = rest
       /\ phase' = IF rest = <<>> THEN "declared" ELSE phase
       /\ error' = error

\* self.declare(self), and _declare(val, base_uri, key_path) where val is a Schema
Declare ==
    /\ phase = "declaring"
    /\ pending # <<>>
    /\ Head(pending).op = "declare"
    /\ LET n == Head(pending).schema
           created == IF n = "R" THEN [exc |-> "ok"]
                      ELSE new_Schema(spec, support, n, Head(pending).base_uri)
           known == IF n = "R" THEN identifiers
                    ELSE identifiers @@ (n :> Identifiers(created))
           declared == declare(registry, stack, known, n)
       IN IF created.exc # "ok"
          THEN /\ Raise(created.exc)
               /\ UNCHANGED <<registry, stack, identifiers, implementation, defined>>
          ELSE /\ registry' = declared.registry
               /\ stack' = declared.stack
               /\ identifiers' = declared.identifiers
               /\ implementation' = implementation @@ (n :> NoImplementation)
               /\ defined' = defined @@ (n :> 0)
               /\ IF declared.exc # "ok" THEN Raise(declared.exc)
                  ELSE Continue(n, declared.push, declared.identifiers[n].base_uri)
    /\ UNCHANGED <<elsewhere, spec, support, todo, model, d, last, held>>

\* the end of declare(schema) for a schema that pushed the stack
DeclareReturn ==
    /\ phase = "declaring"
    /\ pending # <<>>
    /\ Head(pending).op = "pop"
    /\ stack' = SubSeq(stack, 1, Len(stack) - 1)
    /\ pending' = Tail(pending)
    /\ phase' = IF Tail(pending) = <<>> THEN "declared" ELSE phase
    /\ UNCHANGED <<elsewhere, spec, support, registry, identifiers, implementation, defined, todo, error,
                   model, d, last, held>>

\* RootSchema.define: the Schemas to compile
Define ==
    /\ phase = "declared"
    /\ todo' = define_todo(registry)
    /\ phase' = "defining"
    /\ UNCHANGED <<elsewhere, spec, support, registry, stack, identifiers, pending, implementation,
                   defined, error, model, d, last, held>>

\* RootSchema._define(schema), for the schema the loop of define comes to next
DefineSchema(n) ==
    /\ phase = "defining"
    /\ n \in DOMAIN todo
    /\ todo[n] > 0
    /\ LET r == _define(registry, identifiers, implementation, spec, n)
           left == [todo EXCEPT ![n] = @ - 1]
       IN IF r.exc # "ok"
          THEN /\ phase' = "failed"
               /\ error' = r.exc
               /\ UNCHANGED <<implementation, defined, todo>>
          ELSE /\ implementation' = [implementation EXCEPT ![n] = r.implementation]
               /\ defined' = [defined EXCEPT ![n] = @ + 1]
               /\ todo' = left
               /\ phase' = IF \A s \in DOMAIN left : left[s] = 0 THEN "defined" ELSE phase
               /\ error' = error
    /\ UNCHANGED <<elsewhere, spec, support, registry, stack, identifiers, pending, model, d, last, held>>

\* schema.uri = uri, on a Schema of the root Schema that has been built
SetUri(n, uri) ==
    /\ phase = "defined"
    /\ n \in DOMAIN identifiers
    /\ LET r == Identifiers_set_uri(identifiers[n], uri)
       IN /\ identifiers' = [identifiers EXCEPT ![n] = r.identifiers]
          /\ error' = IF r.exc = "ok" THEN None ELSE r.exc
    /\ UNCHANGED <<elsewhere, spec, support, registry, stack, pending, implementation, defined, todo,
                   phase, model, d, last, held>>

NextGraph ==
    \/ Declare
    \/ DeclareReturn
    \/ Define
    \/ \E n \in Schemas : DefineSchema(n)
    \/ \E n \in Schemas, uri \in {InitialBaseUri, "http://h/o"} : SetUri(n, uri)

SpecGraph == InitGraph /\ [][NextGraph]_vars

\* RootSchema(spec, initial_base_uri) for the documents with errors of authoring
NextAuthor ==
    \/ Declare
    \/ DeclareReturn
    \/ Define
    \/ \E n \in Schemas : DefineSchema(n)

InitAuthor == RootSchema_init(AuthorSpecs) /\ support.format = FALSE

SpecAuthor == InitAuthor /\ [][NextAuthor]_vars

\* schema(val), schema.cast(val), schema.validate(val) and schema.debug(val,
\* results) on a Schema of a root Schema built with define=False (declared)
\* or defined
Apply(op, n, val) ==
    /\ phase \in {"declared", "defined"}
    /\ n \in DOMAIN implementation
    /\ last' = Call(op, n, {val},
                    CASE op = "call" -> Schema_call(implementation, n, val, {})
                      [] op = "cast" -> Schema_cast(implementation, n, val, {})
                      [] op = "validate" -> Schema_validate(implementation, n, val)
                      [] OTHER -> Schema_debug(implementation, n, val, {}))
    /\ UNCHANGED <<elsewhere, spec, support, registry, stack, identifiers, pending, implementation,
                   defined, todo, phase, error, model, d, held>>

ApplyOps == {"call", "cast", "validate", "debug"}

NextApply ==
    \/ Declare
    \/ DeclareReturn
    \/ Define
    \/ \E n \in Schemas : DefineSchema(n)
    \/ \E op \in ApplyOps, n \in Schemas, val \in ApplyValues : Apply(op, n, val)

\* the documents whose `$id`s are all accepted, under a Support without formats
InitApply == InitGraph /\ support.format = FALSE /\ spec.id = None

SpecApply == InitApply /\ [][NextApply]_vars

(***************************************************************************)
(* Loading external Schemas.  RootSchema.load(filename, support) declares  *)
(* and defines the document of the file; define calls                      *)
(* support.load_schema(uri) for each `$ref` that names another document,   *)
(* in the order of a frozenset; load_schema loads the file of the URI with *)
(* RootSchema.load, unless it has it in _roots.  A frame is a call of      *)
(* RootSchema.load in progress: its file, the URIs it has still to         *)
(* resolve, and whether load_schema made the call (and pushed the file).   *)
(***************************************************************************)
LoadFrame(file, pushed) == [file |-> file, todo |-> documents[file], pushed |-> pushed]

\* the URI the call in progress resolves next is one it has still to resolve
Top == frames[Len(frames)]

\* the application calls RootSchema.load(file, support=support)
Load(file) ==
    /\ frames = <<>>
    /\ frames' = <<LoadFrame(file, FALSE)>>
    /\ raised' = "None"
    /\ UNCHANGED <<documents, roots, load_stack>>
    /\ UNCHANGED <<model, d, last, held, spec, support, registry, stack, identifiers, pending,
                   implementation, defined, todo, phase, error, evalvars>>

\* support.load_schema(uri), called by the application or by define for a
\* `$ref` of the document being loaded
LoadSchema(uri) ==
    /\ IF frames = <<>> THEN TRUE ELSE uri \in Top.todo
    /\ LET r == load_schema(roots, load_stack, uri)
           resumed == IF frames = <<>> THEN <<>>
                      ELSE [frames EXCEPT ![Len(frames)].todo = @ \ {uri}]
       IN IF r.exc # "ok"
          THEN /\ raised' = r.exc
               /\ frames' = <<>>
               /\ UNCHANGED <<roots, load_stack>>
          ELSE IF r.load
          THEN /\ load_stack' = Append(load_stack, r.file)
               /\ frames' = Append(resumed, LoadFrame(r.file, TRUE))
               /\ raised' = "None"
               /\ roots' = roots
          ELSE /\ frames' = resumed
               /\ raised' = "None"
               /\ UNCHANGED <<roots, load_stack>>
    /\ documents' = documents
    /\ UNCHANGED <<model, d, last, held, spec, support, registry, stack, identifiers, pending,
                   implementation, defined, todo, phase, error, evalvars>>

\* RootSchema.load returns: to load_schema, which keeps the root Schema in
\* _roots and pops the file, or to the application
LoadReturn ==
    /\ IF frames = <<>> THEN FALSE ELSE Top.todo = {}
    /\ frames' = SubSeq(frames, 1, Len(frames) - 1)
    /\ IF Top.pushed
       THEN /\ roots' = roots \cup {Top.file}
            /\ load_stack' = SubSeq(load_stack, 1, Len(load_stack) - 1)
       ELSE UNCHANGED <<roots, load_stack>>
    /\ raised' = "None"
    /\ documents' = documents
    /\ UNCHANGED <<model, d, last, held, spec, support, registry, stack, identifiers, pending,
                   implementation, defined, todo, phase, error, evalvars>>

NextLoad ==
    \/ \E file \in Files : Load(file)
    \/ \E uri \in Uris : LoadSchema(uri)
    \/ LoadReturn

\* IndexSupport.__init__
InitLoad ==
    /\ documents \in Documents
    /\ roots = {} /\ load_stack = <<>> /\ frames = <<>> /\ raised = "None"
    /\ NoModelledDict
    /\ NoRootSchema
    /\ NoEvaluation

\* a call in progress goes on: the program is sequential and nothing in it
\* waits
SpecLoad ==
    /\ InitLoad /\ [][NextLoad]_vars
    /\ WF_vars(frames # <<>> /\ NextLoad)

(***************************************************************************)
(* A Schema of a root Schema that has been built is applied to a value.    *)
(***************************************************************************)
\* what an application leaves alone
Applied ==
    UNCHANGED <<model, d, last, held, spec, support, registry, stack, identifiers, pending,
                implementation, defined, todo, phase, error, loadvars, subject, input>>

\* schema(val)
CallSchema ==
    /\ subject \in DebugSchemas
    /\ outcome' = [op |-> "call", exc |-> Impl_call(subject, input), ret |-> FALSE,
                   results |-> {}]
    /\ Applied

\* schema.debug(val, results), with results empty
DebugSchema ==
    /\ subject \in DebugSchemas
    /\ LET r == Impl_debug(subject, input, "", InitialBaseUri)
       IN outcome' = [op |-> "debug", exc |-> r.exc, ret |-> r.ret, results |-> r.results]
    /\ Applied

NextDebug == CallSchema \/ DebugSchema

InitDebug ==
    /\ subject \in DebugSchemas
    /\ input \in DebugValues
    /\ outcome = NoOutcome
    /\ NoModelledDict
    /\ NoRootSchema
    /\ NoIndexSupport

SpecDebug == InitDebug /\ [][NextDebug]_vars

(***************************************************************************)
(* The validator of `oneOf` is applied to a value.                         *)
(***************************************************************************)
\* validator(val)
CallOneOf ==
    /\ subject \in OneOfSchemas
    /\ LET r == OneOfValidator_call(subject, input)
       IN outcome' = [op |-> "call", exc |-> r.exc, accepted |-> r.accepted,
                      evaluated |-> r.evaluated]
    /\ Applied

\* validator.debug(val, results)
DebugOneOf ==
    /\ subject \in OneOfSchemas
    /\ outcome' = [op |-> "debug", exc |-> "ok", ret |-> OneOfValidator_debug(subject, input),
                   results |-> {}]
    /\ Applied

NextOneOf == CallOneOf \/ DebugOneOf

InitOneOf ==
    /\ subject \in OneOfSchemas
    /\ input \in OneOfValues
    /\ outcome = NoOutcome
    /\ NoModelledDict
    /\ NoRootSchema
    /\ NoIndexSupport

SpecOneOf == InitOneOf /\ [][NextOneOf]_vars

(***************************************************************************)
(* The item at a missing key of an object is taken.                        *)
(***************************************************************************)
\* d[key] for a key that d does not have: _modelled_dict_missing
Missing ==
    /\ subject \in DefaultModels
    /\ LET r == ObjectModel_default_value(subject, input)
       IN outcome' = [op |-> "missing", exc |-> r.exc, ret |-> r.val, results |-> {}]
    /\ Applied

\* d.get(key) for a key that d does not have: dict.get does not ask the model
Get ==
    /\ subject \in DefaultModels
    /\ outcome' = [op |-> "get", exc |-> "ok", ret |-> PyNone, results |-> {}]
    /\ Applied

NextDefault == Missing \/ Get

InitDefault ==
    /\ subject \in DefaultModels
    /\ input \in DefaultKeys
    /\ outcome = NoOutcome
    /\ NoModelledDict
    /\ NoRootSchema
    /\ NoIndexSupport

SpecDefault == InitDefault /\ [][NextDefault]_vars

(***************************************************************************)
(* A class made by ModelledDict.declare, or by a class statement with a    *)
(* model, has its model defined and instances made of it.                  *)
(***************************************************************************)
\* cls.define(model_spec, policy_spec)
DefineModel(model_spec, policy_spec) ==
    /\ LET r == modelled_define(model, model_spec, policy_spec)
       IN /\ model' = r.model
          /\ last' = Call("define", NoKey, {}, r.exc)
    /\ UNCHANGED <<elsewhere, d, held, spec, support, registry, stack, identifiers, pending,
                   implementation, defined, todo, phase, error>>

\* d = cls(val)
NewInstance(val) ==
    /\ LET r == modelled_init(model, val)
       IN /\ d' = IF r.exc = "ok" THEN r.formed ELSE d
          /\ last' = Call("init", NoKey, DOMAIN val, r.exc)
    /\ UNCHANGED <<elsewhere, model, held, spec, support, registry, stack, identifiers, pending,
                   implementation, defined, todo, phase, error>>

NextDefine ==
    \/ \E model_spec \in DefineSpecs, policy_spec \in DefinePolicies :
          DefineModel(model_spec, policy_spec)
    \/ \E val \in Dicts : NewInstance(val)

\* ModelledDict.declare(name), or a class statement with a model and the
\* default policy
InitDefine ==
    /\ model \in {DeclaredModel("must-understand")}
                 \cup {modelled_define(DeclaredModel("must-understand"), ms, "None").model :
                         ms \in {m \in DefineSpecs : m.kind = "dict" /\ m.valid}}
    /\ d = EmptyDict
    /\ held = EmptyDict
    /\ last = Call(None, NoKey, {}, "ok")
    /\ NoRootSchema
    /\ NoIndexSupport
    /\ NoEvaluation

SpecDefine == InitDefine /\ [][NextDefine]_vars

(***************************************************************************)
(* The validator of `uniqueItems` is applied to an array.                  *)
(***************************************************************************)
\* func(val), for the function of `uniqueItems`
UniqueItems ==
    /\ subject = "uniqueItems"
    /\ outcome' = [op |-> "uniqueItems", exc |-> "ok", ret |-> validator_unique(input),
                   results |-> {}]
    /\ Applied

\* Validator.__call__ with that function: ValueError where it returns False
CallUniqueItems ==
    /\ subject = "uniqueItems"
    /\ outcome' = [op |-> "call",
                   exc |-> IF validator_unique(input) THEN "ok" ELSE "ValueError",
                   ret |-> FALSE, results |-> {}]
    /\ Applied

NextUnique == UniqueItems \/ CallUniqueItems

InitUnique ==
    /\ subject = "uniqueItems"
    /\ input \in Arrays
    /\ outcome = NoOutcome
    /\ NoModelledDict
    /\ NoRootSchema
    /\ NoIndexSupport

SpecUnique == InitUnique /\ [][NextUnique]_vars

(***************************************************************************)
(* Properties of the enforced dict.                                        *)
(***************************************************************************)
\* the keys that trigger a dependency of an object model
Triggers(m) == DOMAIN m.dep_instance \cup DOMAIN m.dep_presence

\* a dependency is active in mapping: one of its trigger keys is present
Active(m, mapping) == Triggers(m) \cap DOMAIN mapping # {}

\* mapping without the keys in S
Without(mapping, S) == [k \in DOMAIN mapping \ S |-> mapping[k]]

C2_RejectedHasNoEffect ==
    [][/\ (/\ last'.op \in {"setitem", "delitem", "pop", "pop_default", "setdefault", "update"}
           /\ last'.exc # "ok")
          => d' = d
       /\ (last'.op = "update" /\ last'.exc = "ok")
          => \E other \in Others : DOMAIN other = last'.keys /\ d' = DictUpdate(d, other)]_vars

C2_Witness ==
    /\ last.op = "update"
    /\ last.exc = "ValueError"
    /\ model.policy_spec = "must-accept"
    /\ "baz" \in last.keys /\ "baz" \notin DOMAIN d
    /\ Cardinality(last.keys) > 1

\* C3: when a dependency is active before or after a setitem, delitem, pop
\* or update that is accepted, the object the call leaves satisfies the whole
\* object model, its schema-valued and list-valued dependencies included.
C3_ActiveDependencyChecksWhole ==
    [][(/\ last'.op \in {"setitem", "delitem", "pop", "pop_default", "update"}
        /\ last'.exc = "ok"
        /\ Active(model, d) \/ Active(model, d'))
       => ObjectModel_call(model, d') = "ok"]_vars

C3_Witness ==
    /\ last.op = "delitem"
    /\ last.exc = "KeyError"
    /\ last.key \in DOMAIN d \ model.required
    /\ ge_min(model, d, 1)
    /\ Active(model, d)

\* the free keys: none when the schema declares a dependency
C4_Free(m, mapping) ==
    LET free == DOMAIN mapping \ m.required
    IN IF has_dependencies(m) \/ ~ge_min(m, mapping, Cardinality(free)) THEN {} ELSE free

\* the free keys: none when a trigger key of a dependency is present
C4_FreeActive(m, mapping) ==
    LET free == DOMAIN mapping \ m.required
    IN IF Active(m, mapping) \/ ~ge_min(m, mapping, Cardinality(free)) THEN {} ELSE free

\* clear() removes exactly the keys in Free and popitem() removes one of them
ClearAndPopitemRemove(Free(_, _)) ==
       /\ last'.op = "clear"
          => (last'.exc = "ok" /\ d' = Without(d, Free(model, d)))
       /\ last'.op = "popitem"
          => IF Free(model, d) = {}
             THEN last'.exc = "KeyError" /\ d' = d
             ELSE /\ last'.key \in Free(model, d)
                  /\ last'.exc = "ok"
                  /\ d' = Without(d, {last'.key})

\* C4: clear() and popitem() remove the non-mandatory keys present, all of
\* them or one of them, unless the schema declares any dependency or removing
\* them all would leave fewer than minProperties keys; then they remove nothing.
C4_FreeUnlessDependenciesDeclared == [][ClearAndPopitemRemove(C4_Free)]_vars

C4_Witness ==
    /\ last.op = "clear"
    /\ has_dependencies(model)
    /\ ~Active(model, d)
    /\ DOMAIN d \ model.required # {}
    /\ ge_min(model, d, Cardinality(DOMAIN d \ model.required))

\* C4 as claimed: nothing is removed only when a trigger key is present (or
\* the minProperties floor would be violated).
C4_FreeUnlessDependencyActive == [][ClearAndPopitemRemove(C4_FreeActive)]_vars

\* the keys a DictModel defines
Modelled(m) == DOMAIN m.pair_model

\* C5: under must-understand and must-ignore the dict never holds a key the
\* model does not define: construction rejects or drops such keys and every
\* later setitem, setdefault or update with one raises and changes nothing;
\* under must-accept such keys are kept at construction and every later
\* setitem, setdefault, update, delitem or pop of one is accepted.
C5_UnmodelledKeysFollowPolicy ==
    /\ [](model.policy_spec # "must-accept" => DOMAIN d \subseteq Modelled(model))
    /\ [](last.op = "init" =>
            CASE model.policy_spec = "must-understand" ->
                    last.keys \subseteq Modelled(model) /\ DOMAIN d = last.keys
              [] model.policy_spec = "must-ignore" ->
                    DOMAIN d = last.keys \cap Modelled(model)
              [] model.policy_spec = "must-accept" ->
                    DOMAIN d = last.keys)
    /\ [][/\ (/\ model.policy_spec # "must-accept"
              /\ \/ last'.op \in {"setitem", "setdefault"} /\ last'.key \notin Modelled(model)
                 \/ last'.op = "update" /\ ~(last'.keys \subseteq Modelled(model)))
             => (last'.exc # "ok" /\ d' = d)
          /\ (/\ model.policy_spec = "must-accept"
              /\ last'.op \in {"setitem", "setdefault"}
              /\ last'.key \notin Modelled(model))
             => (last'.exc = "ok" /\ last'.key \in DOMAIN d')
          /\ (/\ model.policy_spec = "must-accept"
              /\ last'.op \in {"delitem", "pop", "pop_default"}
              /\ last'.key \in DOMAIN d \ Modelled(model))
             => (last'.exc = "ok" /\ d' = Without(d, {last'.key}))
          /\ (/\ model.policy_spec = "must-accept"
              /\ last'.op = "update"
              /\ last'.keys \cap Modelled(model) = {})
             => (last'.exc = "ok" /\ last'.keys \subseteq DOMAIN d')]_vars

C5_Witness ==
    /\ model.policy_spec = "must-ignore"
    /\ last.op = "setitem"
    /\ last.key \notin Modelled(model)
    /\ last.exc = "KeyError"

\* C6: no call changes the value held at a constant key: setitem on a
\* constant key that is present raises KeyError, update with one raises
\* ValueError, and across every call a constant key present before and after
\* it holds the same value. (A constant key that is not mandatory can be
\* deleted and then set again, to any value its type accepts.)
C6_NoCallChangesConstant ==
    [][/\ \A k \in constant(model) \cap DOMAIN d \cap DOMAIN d' : d'[k] = d[k]
       /\ (last'.op = "setitem" /\ last'.key \in constant(model) \cap DOMAIN d)
          => last'.exc = "KeyError"
       /\ (last'.op = "update" /\ last'.keys \cap constant(model) \cap DOMAIN d # {})
          => last'.exc = "ValueError"]_vars

C6_Witness ==
    /\ last.op = "setitem"
    /\ last.key \in constant(model) \cap DOMAIN d
    /\ last.exc = "KeyError"
    /\ DOMAIN held = {last.key}
    /\ ~model.pair_model[last.key].mandatory

\* C6 as claimed: over any sequence of calls a constant key never holds a
\* value different from the one it was first set to.
C6_ConstantNeverHoldsAnother ==
    \A k \in DOMAIN held \cap DOMAIN d : d[k] = held[k]

(***************************************************************************)
(* Properties of the construction of a root Schema.                        *)
(***************************************************************************)
\* the Schema a Subschema is declared under
Parent(n) == IF n = "X" THEN "A" ELSE "R"

\* the Subschemas of the document
Subs == DOMAIN spec.sub

\* the base URI the document gives Schema n
RECURSIVE BaseOf(_)
BaseOf(n) ==
    IF n = "R" THEN Identifiers_define(spec, support, "R", InitialBaseUri).base_uri
    ELSE new_Schema(spec, support, n, BaseOf(Parent(n))).base_uri

\* the Schemas enclosing n, itself included, that change the base URI: the
\* innermost of them first
RECURSIVE ScopesOf(_)
ScopesOf(n) ==
    IF n = "R" THEN <<"R">>
    ELSE IF BaseOf(n) # BaseOf(Parent(n)) THEN <<n>> \o ScopesOf(Parent(n))
    ELSE ScopesOf(Parent(n))

\* every key the document makes Schema n claim in the registry
Claims(n) ==
    LET uri == IF n = "R" THEN Identifiers_define(spec, support, "R", InitialBaseUri).uri
               ELSE new_Schema(spec, support, n, BaseOf(Parent(n))).uri
        scopes == ScopesOf(n)
    IN ({uri} \ {None}) \cup {ref(n)}
       \cup {rstrip(BaseOf(scopes[i]), "#") \o relative_ref(scopes[i], n).ref :
                i \in 1..Len(scopes)}

\* a Schema of nodes claims a URI in seen, or a URI an earlier one of nodes claims
RECURSIVE Clash(_, _)
Clash(seen, nodes) ==
    IF nodes = <<>> THEN FALSE
    ELSE LET claims == Claims(Head(nodes))
         IN claims \cap seen # {} \/ Clash(seen \cup claims, Tail(nodes))

\* two Schemas of the document claim the same URI
Duplicate == Clash({}, SelectSeq(<<"R", "A", "B", "X">>, LAMBDA n : n \in Subs \cup {"R"}))

\* no `$id` of the document is rejected when its Schema is created
ValidIds == \A n \in Subs : new_Schema(spec, support, n, BaseOf(Parent(n))).exc = "ok"

\* C7: when two Schemas of a document claim the same URI the build fails
\* during declare, in either order of the two, and with KeyError unless an
\* invalid `$id` met first raised ValueError; declare raises KeyError for no
\* other reason.
C7_DuplicateUriIsKeyError ==
    /\ phase \in {"declared", "defining", "defined"} => ~Duplicate
    /\ phase = "declaring" => pending # <<>>
    /\ (phase = "failed" /\ ValidIds /\ Duplicate) => error = "KeyError"
    /\ (phase = "failed" /\ error = "KeyError") => Duplicate

C7_Witness ==
    /\ phase = "failed"
    /\ error = "KeyError"
    /\ spec.order = <<"B", "A">>
    /\ spec.sub["A"].id = "#/definitions/B"
    /\ "X" \in Subs

\* the innermost Schema enclosing n, itself included, that changes the base URI
RECURSIVE Scope(_, _)
Scope(ids, n) ==
    IF n = "R" THEN "R"
    ELSE IF ids[n].base_uri # ids[Parent(n)].base_uri THEN n
    ELSE Scope(ids, Parent(n))

\* the Schemas declare has registered
Registered == {registry[k] : k \in DOMAIN registry}

\* C8: the URI of a Schema never changes once it is set; a Subschema without
\* `$id` that declare has registered has the URI formed from the innermost
\* enclosing base URI and its location under it; once declare has returned
\* every registered Schema has a URI; and setting uri on a Schema that has
\* one raises RuntimeError and changes nothing.
C8_UriAssignedOnce ==
    /\ [](phase \in {"declared", "defining", "defined"}
          => \A n \in Registered : identifiers[n].uri # None)
    /\ [](phase # "failed"
          => \A n \in Registered \ {"R"} :
                id_(spec, n) = None
                => identifiers[n].uri =
                      rstrip(identifiers[Scope(identifiers, n)].base_uri, "#")
                      \o relative_ref(Scope(identifiers, n), n).ref)
    /\ [][/\ \A n \in DOMAIN identifiers :
                identifiers[n].uri # None => identifiers'[n].uri = identifiers[n].uri
          /\ phase = "defined" => (error' = "RuntimeError" /\ identifiers' = identifiers)]_vars

C8_Witness ==
    /\ phase = "defined"
    /\ error = "RuntimeError"
    /\ "X" \in Registered
    /\ id_(spec, "X") = None
    /\ Scope(identifiers, "X") = "A"
    /\ identifiers["X"].uri = "http://h/o#/properties/x"

\* C9: define compiles no Schema twice, an implementation once assigned is
\* not assigned again, and when define has completed every registered Schema
\* has been compiled once and has an implementation.
C9_EachSchemaCompiledOnce ==
    /\ [](\A n \in DOMAIN defined : defined[n] <= 1)
    /\ [](phase = "defined"
          => \A n \in Registered :
                defined[n] = 1 /\ implementation[n] # NoImplementation)
    /\ [][\A n \in DOMAIN implementation :
             implementation[n] # NoImplementation
             => implementation'[n] = implementation[n]]_vars

C9_Witness ==
    /\ phase = "defined"
    /\ \E n \in Registered :
          /\ Cardinality({k \in DOMAIN registry : registry[k] = n}) > 3
          /\ defined[n] = 1

\* the implementations define leaves when it compiles the Schemas in order
RECURSIVE DefineInOrder(_, _)
DefineInOrder(impl, order) ==
    IF order = <<>> THEN impl
    ELSE DefineInOrder(
            [impl EXCEPT ![Head(order)] =
                _define(registry, identifiers, impl, spec, Head(order)).implementation],
            Tail(order))

\* Schema n cannot be compiled, whatever has been compiled before it
Fails(n) ==
    \A done \in SUBSET (Registered \ {n}) :
       _define(registry, identifiers,
               [s \in DOMAIN implementation |->
                   IF s \in done THEN implementation[s] ELSE NoImplementation],
               spec, n).exc = "ValueError"

\* C10: whatever Schemas define has compiled so far, each has the
\* implementation that compiling all the registered Schemas leaves in every
\* order: the Schema referred to for a `$ref`, the validators of its own
\* keywords otherwise, also where the Schema referred to is not compiled
\* yet; and define fails, with ValueError, exactly when some registered
\* Schema cannot be compiled, whichever Schemas it compiled first.
C10_DefineOrderIndependent ==
    /\ phase \in {"defining", "defined"}
       => \A order \in Orders(Registered) :
             LET final == DefineInOrder([n \in DOMAIN implementation |-> NoImplementation], order)
             IN \A n \in Registered : defined[n] > 0 => implementation[n] = final[n]
    /\ phase = "defined" => \A n \in Registered : ~Fails(n)
    /\ (phase = "failed" /\ todo # <<>>)
       => (error = "ValueError" /\ \E n \in Registered : Fails(n))

C10_Witness ==
    /\ phase = "defining"
    /\ implementation["A"] = [kind |-> "Schema", schema |-> "B"]
    /\ defined["B"] = 0
    /\ spec.sub["B"].ref = "#/definitions/A"

\* the registered Schemas whose spec has a `$ref`
Referrers == {n \in Registered : SpecOf(spec, n).kind = "dict" /\ SpecOf(spec, n).ref # None}

\* the `$ref` of Schema n resolved against the base URI of n
Resolved(n) == resolve(identifiers[n].base_uri, SpecOf(spec, n).ref).uri

\* the address at which the `$ref` of Schema n is looked up: the reference
\* itself where it is registered, else the reference resolved
Address(n) ==
    IF SpecOf(spec, n).ref \in DOMAIN registry THEN SpecOf(spec, n).ref ELSE Resolved(n)

\* C12: a Schema with a `$ref` that define has compiled has as its
\* implementation the Schema registered at the reference string itself
\* where there is one, else the Schema registered at the reference resolved
\* against the referring Schema's own base URI; define completes only if
\* every `$ref` finds a Schema so, and fails only if some `$ref` finds none.
C12_RefDirectThenResolved ==
    /\ phase \in {"defining", "defined"}
       => \A n \in Referrers :
             defined[n] > 0
             => /\ Address(n) \in DOMAIN registry
                /\ implementation[n] = [kind |-> "Schema", schema |-> registry[Address(n)]]
    /\ phase = "defined" => \A n \in Referrers : Address(n) \in DOMAIN registry
    /\ (phase = "failed" /\ todo # <<>>)
       => \E n \in Referrers : Address(n) \notin DOMAIN registry

\* A, whose `$id` opens a scope, refers to "#foo": it is bound to X in that
\* scope, not to B, which is "#foo" in the scope of the root
C12_Witness ==
    /\ phase = "defined"
    /\ "X" \in Registered
    /\ spec.sub["A"].id = "o" /\ spec.sub["A"].ref = "#foo"
    /\ spec.sub["B"].id = "#foo" /\ spec.sub["X"].id = "#foo"
    /\ SpecOf(spec, "A").ref \notin DOMAIN registry
    /\ Resolved("A") = "http://h/o#foo"
    /\ implementation["A"] = [kind |-> "Schema", schema |-> "X"]

\* the Schemas of the document
Nodes == Subs \cup {"R"}

\* Schema n has a validation keyword whose value its rule rejects, and no
\* `$ref` to make the keyword ignored
Malformed(n) ==
    /\ SpecOf(spec, n).kind = "dict"
    /\ SpecOf(spec, n).ref = None
    /\ validation(spec, n) # "ok"

\* a Schema of the document has a `$schema` that is not allowed
BadVersion == \E n \in Nodes : Schema_init(spec, n) # "ok"

\* the `$ref` of Schema n names no URI that a Schema of the document claims
Dangling(n) ==
    LET claimed == UNION {Claims(m) : m \in Nodes}
    IN /\ SpecOf(spec, n).kind = "dict"
       /\ SpecOf(spec, n).ref # None
       /\ SpecOf(spec, n).ref \notin claimed
       /\ resolve(BaseOf(n), SpecOf(spec, n).ref).uri \notin claimed

\* C14: every error of authoring is raised when the root Schema is built as
\* the one kind SchemaError: a build that fails, fails with SchemaError.
C14_AuthoringErrorIsSchemaError == phase = "failed" => error = "SchemaError"

\* C14, as the code has it: a document with an error of authoring is never
\* built, and a build fails only for such an error: with SchemaError for a
\* malformed value of a keyword, with KeyError for a duplicate identifier,
\* and with ValueError for a `$schema` that is not allowed or a `$ref` that
\* finds no Schema.
C14_AuthoringErrorsAreFatal ==
    /\ phase = "defined"
       => /\ ~BadVersion
          /\ ~Duplicate
          /\ \A n \in Nodes : ~Malformed(n) /\ ~Dangling(n)
    /\ phase = "failed"
       => /\ error \in {"SchemaError", "KeyError", "ValueError"}
          /\ error = "SchemaError" => \E n \in Nodes : Malformed(n)
          /\ error = "KeyError" => Duplicate
          /\ error = "ValueError" => BadVersion \/ \E n \in Nodes : Dangling(n)

\* a `$ref` that finds no Schema fails define with ValueError, in a document
\* that has a malformed keyword as well
C14_Witness ==
    /\ phase = "failed"
    /\ error = "ValueError"
    /\ ~BadVersion
    /\ Dangling("A")
    /\ Malformed("B")

\* the `$id` of Schema n is an identifier of its own, not a fragment
OwnId(n) == id_(spec, n) # None /\ ~startswith(id_(spec, n), "#")

\* the base URI that the document gives Schema n, from that of its parent
InheritedBase(n) ==
    IF n = "R" THEN IF OwnId(n) THEN id_(spec, n) ELSE InitialBaseUri
    ELSE IF OwnId(n) THEN Prefix \o id_(spec, n)
    ELSE identifiers[Parent(n)].base_uri

\* C19: the base URI of a Schema is its own absolute identifier where its
\* `$id` declares one (a relative `$id` taken against the base URI around
\* it), else the base URI of the nearest Schema above it, and for a root
\* Schema without `$id` the initial base URI; a `$id` that is only a
\* fragment leaves the base URI as it is.
C19_BaseUriInherited ==
    \A n \in DOMAIN identifiers :
        /\ n # "R" => Parent(n) \in DOMAIN identifiers
        /\ identifiers[n].base_uri = InheritedBase(n)

\* X has the base URI of A, whose `$id` is its own, and B that of the root
C19_Witness ==
    /\ phase = "defined"
    /\ "X" \in DOMAIN identifiers
    /\ spec.id = "http://h/v"
    /\ spec.sub["A"].id = "o"
    /\ spec.sub["B"].id = "#foo"
    /\ identifiers["X"].base_uri = "http://h/o"
    /\ identifiers["B"].base_uri = "http://h/v"

(***************************************************************************)
(* Properties of applying a Schema to a value.                             *)
(***************************************************************************)
\* what applying a Schema leaves when it fails with an error
ApplyErrors == {"TypeError", "AttributeError", "ValueError", "RecursionError"}

\* C11: on a root Schema that is declared and not defined every Schema's
\* implementation is unset, and call, cast, validate and debug of such a
\* Schema each fail with an error, none returning a result.
C11_UndefinedSchemaFails ==
    /\ [](phase = "declared"
          => \A n \in DOMAIN implementation : implementation[n] = NoImplementation)
    /\ [][(phase = "declared" /\ last'.op \in ApplyOps) => last'.exc \in ApplyErrors]_vars

\* validate has returned False on a Schema that has no implementation
C11_Witness ==
    /\ phase = "declared"
    /\ last.op = "validate"
    /\ last.exc = "False"
    /\ implementation[last.key] = NoImplementation

Accepting == SelectSeq([j \in 1..Len(subject) |-> j],
                       LAMBDA j : Range_call(subject[j], input) = "ok")

\* C16: `oneOf` accepts a value if and only if exactly one of its Subschemas
\* accepts it, returning what that one returns; the second Subschema to
\* accept makes it reject at once, with the Subschemas after it not called;
\* and it rejects where none accepts, after calling them all.  Rejection is
\* ValueError.  debug agrees with the call.
C16_OneOfExactlyOne ==
    /\ outcome.op = "call"
       => /\ outcome.exc = "ok" <=> Len(Accepting) = 1
          /\ outcome.exc \in {"ok", "ValueError"}
          /\ Len(Accepting) = 1
             => outcome.accepted = Accepting[1] /\ outcome.evaluated = Len(subject)
          /\ Len(Accepting) > 1 => outcome.evaluated = Accepting[2]
          /\ Len(Accepting) = 0 => outcome.evaluated = Len(subject)
    /\ outcome.op = "debug" => outcome.ret = (Len(Accepting) = 1)

\* the value is in two of three ranges: rejected at the second, the third
\* not called
C16_Witness ==
    /\ outcome.op = "call"
    /\ subject = <<[lo |-> 1, hi |-> 2], [lo |-> 2, hi |-> 3], [lo |-> 0, hi |-> 3]>>
    /\ input = Scalar("number", 2)
    /\ outcome.exc = "ValueError"
    /\ outcome.evaluated = 2

(***************************************************************************)
(* Properties of the default value at a missing key.                       *)
(***************************************************************************)
\* the defaults that the Schemas of `patternProperties` matching the key declare
Declared ==
    SelectSeq(subject.patternProperties, LAMBDA q : input \in q.hits /\ q.default # <<>>)

\* the exact Schema of `properties` for the key declares a default
Exact == input = "x" /\ subject.properties # <<>> /\ subject.properties[1] # <<>>

\* C17: the default at a missing key is that of the exact Schema of
\* `properties` where it declares one; else that of the one matching Schema
\* of `patternProperties` that declares one, and an error (KeyError) where
\* more than one does; else that of `additionalProperties`; else there is
\* none and the lookup fails with KeyError.
C17_DefaultPriority ==
    outcome.op = "missing"
    => CASE Exact -> outcome.exc = "ok" /\ outcome.ret = subject.properties[1][1]
         [] ~Exact /\ Len(Declared) = 1 ->
              outcome.exc = "ok" /\ outcome.ret = Declared[1].default[1]
         [] ~Exact /\ Len(Declared) > 1 -> outcome.exc = "KeyError"
         [] OTHER ->
              IF subject.additionalProperties # <<>> /\ subject.additionalProperties[1] # <<>>
              THEN outcome.exc = "ok" /\ outcome.ret = subject.additionalProperties[1][1]
              ELSE outcome.exc = "KeyError"

\* two Schemas of `patternProperties` match the key and declare defaults,
\* and `additionalProperties` declares one too: the lookup fails
C17_Witness ==
    /\ outcome.op = "missing"
    /\ outcome.exc = "KeyError"
    /\ ~Exact
    /\ Len(Declared) = 2
    /\ Declared[1].default # Declared[2].default
    /\ subject.additionalProperties = <<<<3>>>>

Repeats == \E i, j \in 1..Len(input) : i < j /\ input[i] = input[j]

\* C20: `uniqueItems` rejects an array exactly when two of its positions
\* hold equal values, and accepts every other array.
C20_UniqueItemsRejectsEqual ==
    /\ outcome.op = "uniqueItems" => outcome.ret = ~Repeats
    /\ outcome.op = "call" => (outcome.exc = "ValueError") = Repeats

\* [1, true, 1] is accepted, though its first and last items are equal
C20_Witness ==
    /\ outcome.op = "call"
    /\ input = <<Scalar("number", 1), Scalar("boolean", 1), Scalar("number", 1)>>
    /\ outcome.exc = "ok"
    /\ Repeats

(***************************************************************************)
(* Properties of loading external Schemas.                                 *)
(***************************************************************************)
\* the calls of RootSchema.load in progress that load_schema made
Nested == {i \in 1..Len(frames) : frames[i].pushed}

\* the URIs whose file is on the load stack and has no root Schema yet
Circular == {u \in DOMAIN IndexOf : IndexOf[u] \in Range(load_stack) \ roots}

\* C13: every load ends; no file is on the load stack twice, so the loads
\* in progress that load_schema made are never more than the documents; a
\* load is never started for a file that is on the load stack; and where
\* the URI to resolve names a file on the load stack, the call fails at once
\* with RuntimeError, which ends every load in progress.
C13_LoadTerminates ==
    /\ [](/\ Cardinality(Nested) <= Cardinality(Files)
          /\ Len(load_stack) <= Cardinality(Files)
          /\ \A i, j \in 1..Len(load_stack) : load_stack[i] = load_stack[j] => i = j)
    /\ [][/\ (Len(frames') > Len(frames) /\ frames'[Len(frames')].pushed)
             => frames'[Len(frames')].file \notin Range(load_stack)
          /\ (IF frames = <<>> THEN FALSE
              ELSE Top.todo # {} /\ Top.todo \subseteq Circular)
             => (raised' = "RuntimeError" /\ frames' = <<>>)
          /\ raised' = "RuntimeError" => frames' = <<>>]_vars
    /\ (frames # <<>>) ~> (frames = <<>>)

\* a loads b, b loads c, c loads a, which is not on the stack as the
\* application loaded it; a refers to b, which is on the stack
C13_Witness ==
    /\ raised = "RuntimeError"
    /\ frames = <<>>
    /\ Len(load_stack) = Cardinality(Files)
    /\ roots = {}

(***************************************************************************)
(* Value types (enforce/value.py) and constraints (enforce/constraint.py). *)
(* A value is None, a boolean (n is 1 for true and 0 for false), an        *)
(* integer n, a string of length n, a list of at most one item or a dict   *)
(* with at most the key x.  A value type is a record: its class, the value *)
(* types it is built from, the canonical values of an Enum, the            *)
(* constraints of a Constrained and the value types MappingOf gives for    *)
(* the key x as mandatory and as optional.                                 *)
(***************************************************************************)
\* the largest integer among the values
MaxInt == 2
\* the most value types of a Choice
MaxAlternatives == 2

\* val.__class__
class(val) ==
    CASE val.kind = "null" -> "NoneType"
      [] val.kind = "boolean" -> "bool"
      [] val.kind = "number" -> "int"
      [] val.kind = "string" -> "str"
      [] val.kind = "array" -> "list"
      [] OTHER -> "dict"

\* isinstance(val, cls): bool is a subclass of int
isinstance(val, cls) == class(val) = cls \/ (class(val) = "bool" /\ cls = "int")

\* val1 == val2 in Python for these values
RECURSIVE value_eq(_, _)
value_eq(val1, val2) ==
    IF isinstance(val1, "int") /\ isinstance(val2, "int") THEN val1.n = val2.n
    ELSE /\ val1.kind = val2.kind
         /\ val1.n = val2.n
         /\ Len(val1.x) = Len(val2.x)
         /\ \A i \in 1..Len(val1.x) : value_eq(val1.x[i], val2.x[i])

BaseType(cls) ==
    [cls |-> cls, value_types |-> <<>>, canonical |-> <<>>, constraints |-> <<>>,
     mandatory |-> <<>>, optional |-> <<>>]
SequenceOf(value_type) == [BaseType("SequenceOf") EXCEPT !.value_types = <<value_type>>]
MappingOf(mandatory_, optional_) ==
    [BaseType("MappingOf") EXCEPT !.mandatory = mandatory_, !.optional = optional_]
Enum(accept) == [BaseType("Enum") EXCEPT !.canonical = accept]
Constrained(value_type, constraints) ==
    [BaseType("Constrained") EXCEPT !.value_types = <<value_type>>,
                                    !.constraints = constraints]
Choice(value_types) == [BaseType("Choice") EXCEPT !.value_types = value_types]

\* Range([(lower, upper)]) and Length([(lower, upper)])
Constraint(cls, lower, upper) == [cls |-> cls, lower |-> lower, upper |-> upper]

\* Range.__call__ and Length.__call__: the TypeError of a comparison with a
\* value that is not a number, or of len() of a value without a length, is
\* caught and gives False
Constraint_call(c, val) ==
    IF c.cls = "Range"
    THEN isinstance(val, "int") /\ c.lower <= val.n /\ val.n <= c.upper
    ELSE CASE val.kind = "string" -> c.lower <= val.n /\ val.n <= c.upper
           [] val.kind \in {"array", "object"} ->
                c.lower <= Len(val.x) /\ Len(val.x) <= c.upper
           [] OTHER -> FALSE

\* the check method of each class: "True", "False" or "None"
RECURSIVE ValueType_check(_, _)
ValueType_check(T, val) ==
    LET bool(b) == IF b THEN "True" ELSE "False"
    IN CASE T.cls = "ValueType" -> "None"
         [] T.cls = "Any" -> "True"
         [] T.cls = "Null" -> bool(val.kind = "null")
         [] T.cls = "Boolean" -> bool(isinstance(val, "bool"))
         [] T.cls \in {"Integer", "Number"} ->
              bool(isinstance(val, "int") /\ ~isinstance(val, "bool"))
         [] T.cls = "String" -> bool(isinstance(val, "str"))
         [] T.cls \in {"Sequence", "SequenceOf"} -> bool(isinstance(val, "list"))
         [] T.cls \in {"Mapping", "MappingOf"} -> bool(isinstance(val, "dict"))
         [] T.cls = "Enum" ->
              bool(\E i \in 1..Len(T.canonical) : isinstance(val, class(T.canonical[i])))
         [] T.cls = "Constrained" -> ValueType_check(T.value_types[1], val)
         [] OTHER ->
              bool(\E i \in 1..Len(T.value_types) :
                       ValueType_check(T.value_types[i], val) = "True")

Returned(val) == [exc |-> "ok", val |-> <<val>>]
Failed(exc) == [exc |-> exc, val |-> <<>>]

\* as a variant of ValueType.__call__: the value is returned unchecked
ValueType_base_call_Unchecked(T, val) == Returned(val)

\* ValueType.__call__, which the classes without their own inherit
ValueType_base_call(T, val) ==
    IF ValueType_check(T, val) = "True" THEN Returned(val) ELSE Failed("TypeError")

\* the __call__ method of each class; Choice_call tries the value types of
\* a Choice from the one at position i on
RECURSIVE ValueType_call(_, _), Choice_call(_, _, _)
ValueType_call(T, val) ==
    CASE T.cls = "Null" -> IF val.kind = "null" THEN Returned(val) ELSE Failed("ValueError")
      [] T.cls = "SequenceOf" ->
           LET super == ValueType_base_call(T, val)
               item == ValueType_call(T.value_types[1], val.x[1])
           IN IF super.exc # "ok" \/ val.x = <<>> \/ item.exc = "ok" THEN super
              ELSE Failed(item.exc)
      [] T.cls = "MappingOf" ->
           LET super == ValueType_base_call(T, val)
               missing == T.mandatory # <<>> /\ val.x = <<>>
               unexpected == val.x # <<>> /\ T.mandatory = <<>> /\ T.optional = <<>>
               value_type == IF T.mandatory # <<>> THEN T.mandatory[1] ELSE T.optional[1]
               member == ValueType_call(value_type, val.x[1])
           IN IF super.exc # "ok" THEN super
              ELSE IF missing \/ unexpected THEN Failed("ValueError")
              ELSE IF val.x = <<>> \/ member.exc = "ok" THEN super
              ELSE Failed(member.exc)
      [] T.cls = "Enum" ->
           IF \E i \in 1..Len(T.canonical) : value_eq(T.canonical[i], val)
           THEN Returned(val) ELSE Failed("ValueError")
      [] T.cls = "Constrained" ->
           LET inner == ValueType_call(T.value_types[1], val)
           IN IF inner.exc # "ok" THEN inner
              ELSE IF \A i \in 1..Len(T.constraints) :
                         Constraint_call(T.constraints[i], inner.val[1])
              THEN inner ELSE Failed("ValueError")
      [] T.cls = "Choice" -> Choice_call(T, 1, val)
      [] OTHER -> ValueType_base_call(T, val)
Choice_call(T, i, val) ==
    IF i > Len(T.value_types) THEN Failed("ValueError")
    ELSE LET tried == ValueType_call(T.value_types[i], val)
         IN IF tried.exc = "ok" THEN tried ELSE Choice_call(T, i + 1, val)

\* the classes that are a type test alone
PlainClasses ==
    {"ValueType", "Any", "Null", "Boolean", "Integer", "Number", "String", "Sequence",
     "Mapping"}

PyScalars ==
    {Scalar("null", 0), Scalar("string", 1)}
        \cup {Scalar("boolean", n) : n \in 0..1} \cup {Scalar("number", n) : n \in 0..MaxInt}
PyValues ==
    PyScalars \cup {Array(<<>>), Object(<<>>)}
        \cup {Array(<<i>>) : i \in PyScalars} \cup {Object(<<i>>) : i \in PyScalars}

Enums ==
    {Enum(<<>>), Enum(<<Scalar("number", 1)>>), Enum(<<Scalar("boolean", 1)>>),
     Enum(<<Scalar("number", 1), Scalar("string", 1)>>)}
InnerTypes ==
    {BaseType("Integer"), BaseType("String"), BaseType("Null"), Enum(<<Scalar("number", 1)>>)}
ConstraintLists ==
    {<<>>, <<Constraint("Range", 1, MaxInt)>>, <<Constraint("Length", 1, 1)>>,
     <<Constraint("Range", 0, 1), Constraint("Range", 1, MaxInt)>>}
ValueTypes ==
    {BaseType(c) : c \in PlainClasses} \cup Enums
        \cup {SequenceOf(T) : T \in InnerTypes}
        \cup {MappingOf(m, o) : m, o \in {<<>>} \cup {<<T>> : T \in InnerTypes}}
        \cup {Constrained(T, cs) :
                T \in InnerTypes \cup {BaseType("Sequence"), SequenceOf(BaseType("Integer"))},
                cs \in ConstraintLists}
        \cup {Choice(ts) : ts \in {<<>>} \cup SeqsUpTo(InnerTypes, MaxAlternatives)}

\* value_type.check(val)
CheckValue ==
    /\ subject \in ValueTypes
    /\ outcome' = [op |-> "check", exc |-> "ok", ret |-> ValueType_check(subject, input),
                   val |-> <<>>]
    /\ Applied

\* value_type(val)
CallValue ==
    /\ subject \in ValueTypes
    /\ LET r == ValueType_call(subject, input)
       IN outcome' = [op |-> "call", exc |-> r.exc, ret |-> ValueType_check(subject, input),
                      val |-> r.val]
    /\ Applied

NextValue == CheckValue \/ CallValue

InitValue ==
    /\ subject \in ValueTypes
    /\ input \in PyValues
    /\ outcome = NoOutcome
    /\ NoModelledDict
    /\ NoRootSchema
    /\ NoIndexSupport

SpecValue == InitValue /\ [][NextValue]_vars

(***************************************************************************)
(* Properties of the value types.                                          *)
(***************************************************************************)
\* C21 as stated: wherever check(val) is true, the call returns a value equal
\* to val.  It fails for every value type whose call tests more than the
\* type: Enum, Constrained, SequenceOf, MappingOf and Choice.
C21_CheckedCallSucceeds ==
    (outcome.op = "call" /\ ValueType_check(subject, input) = "True")
        => (outcome.exc = "ok" /\ value_eq(outcome.val[1], input))

\* C21: check is a test of the type alone.  For the classes that are a type
\* test and no more, the call returns the value exactly where check is true,
\* and fails otherwise (ValueError from Null, TypeError from the others);
\* for every value type, a call that succeeds returns the value it was
\* given, and a call fails with TypeError or ValueError and nothing else.
C21_CheckIsTypeTest ==
    outcome.op = "call" =>
        /\ outcome.exc \in {"ok", "TypeError", "ValueError"}
        /\ outcome.exc = "ok" => outcome.val = <<input>>
        /\ subject.cls \in PlainClasses =>
             /\ (outcome.exc = "ok") = (ValueType_check(subject, input) = "True")
             /\ outcome.exc # "ok" =>
                  outcome.exc = (IF subject.cls = "Null" THEN "ValueError" ELSE "TypeError")

\* Enum((1,)) called with 2: check is true, as 2 is an int, and the call
\* raises ValueError
C21_Witness ==
    /\ outcome.op = "call"
    /\ subject = Enum(<<Scalar("number", 1)>>)
    /\ input = Scalar("number", 2)
    /\ ValueType_check(subject, input) = "True"
    /\ outcome.exc = "ValueError"

(***************************************************************************)
(* TypeAbsoluteUri on whole URIs (jsonschema/uri.py): scheme, authority,   *)
(* path, query and fragment, as urllib.parse.urlsplit finds them in the    *)
(* string and urlunsplit puts them together.                               *)
(***************************************************************************)
\* the first position of character c in s, 0 if it has none
find(s, c) ==
    LET I == {i \in 1..Len(s) : SubSeq(s, i, i) = c}
    IN IF I = {} THEN 0 ELSE CHOOSE i \in I : \A j \in I : i <= j

\* the last position of character c in s, 0 if it has none
rfind(s, c) ==
    LET I == {i \in 1..Len(s) : SubSeq(s, i, i) = c}
    IN IF I = {} THEN 0 ELSE CHOOSE i \in I : \A j \in I : i >= j

\* the letters of the URIs here, and the characters of a scheme
Lower == {"a", "b", "c", "d", "e", "f", "h", "i", "l", "n", "p", "q", "r", "s", "t", "u"}
Upper == {"N", "R", "U"}
scheme_chars == Lower \cup Upper \cup {"+", "-", "."}

\* str.lower
RECURSIVE lower(_)
lower(s) ==
    IF s = "" THEN ""
    ELSE LET c == SubSeq(s, 1, 1)
         IN (CASE c = "N" -> "n" [] c = "R" -> "r" [] c = "U" -> "u" [] OTHER -> c)
                \o lower(SubSeq(s, 2, Len(s)))

\* the part of url before the first of the characters of stops, from start
until(url, start, stops) ==
    LET I == {i \in start..Len(url) : SubSeq(url, i, i) \in stops}
    IN IF I = {} THEN Len(url) + 1 ELSE CHOOSE i \in I : \A j \in I : i <= j

\* urllib.parse.urlsplit, from the query on: url is what is left of the URI
\* after its scheme, authority and fragment
split_query(scheme, netloc, url, fragment) ==
    LET mark == find(url, "?")
    IN [scheme |-> scheme, netloc |-> netloc,
        path |-> IF mark = 0 THEN url ELSE SubSeq(url, 1, mark - 1),
        query |-> IF mark = 0 THEN "" ELSE SubSeq(url, mark + 1, Len(url)),
        fragment |-> fragment]

\* urlsplit, from the fragment on
split_fragment(scheme, netloc, url) ==
    LET hash == find(url, "#")
    IN split_query(scheme, netloc,
                   IF hash = 0 THEN url ELSE SubSeq(url, 1, hash - 1),
                   IF hash = 0 THEN "" ELSE SubSeq(url, hash + 1, Len(url)))

\* urlsplit, from the authority on (_splitnetloc)
split_netloc(scheme, url) ==
    LET delim == until(url, 3, {"/", "?", "#"})
    IN split_fragment(scheme,
                      IF startswith(url, "//") THEN SubSeq(url, 3, delim - 1) ELSE "",
                      IF startswith(url, "//") THEN SubSeq(url, delim, Len(url)) ELSE url)

\* whether url[:i], up to the first colon, is a scheme
has_scheme(uri, i) ==
    /\ i > 1
    /\ SubSeq(uri, 1, 1) \in Lower \cup Upper
    /\ \A j \in 1..(i - 1) : SubSeq(uri, j, j) \in scheme_chars

\* urllib.parse.urlsplit
split(uri) ==
    LET i == find(uri, ":")
    IN split_netloc(IF has_scheme(uri, i) THEN lower(SubSeq(uri, 1, i - 1)) ELSE "",
                    IF has_scheme(uri, i) THEN SubSeq(uri, i + 1, Len(uri)) ELSE uri)

\* the schemes of urllib.parse.uses_netloc among those here
uses_netloc == {"", "ftp", "http", "file"}

\* urllib.parse.urlunsplit
unsplit(scheme, netloc, path, query, fragment) ==
    LET slashed == netloc # "" \/ (scheme # "" /\ scheme \in uses_netloc
                                    /\ ~startswith(path, "//"))
        url1 == IF slashed
                THEN "//" \o netloc
                         \o (IF path # "" /\ ~startswith(path, "/") THEN "/" ELSE "") \o path
                ELSE path
        url2 == IF scheme # "" THEN scheme \o ":" \o url1 ELSE url1
        url3 == IF query # "" THEN url2 \o "?" \o query ELSE url2
    IN IF fragment # "" THEN url3 \o "#" \o fragment ELSE url3

\* TypeUriReference.is_fragment
TypeUriReference_is_fragment(uri) ==
    LET p == split(uri)
    IN p.scheme = "" /\ p.netloc = "" /\ p.path = "" /\ p.query = "" /\ p.fragment # ""

\* TypeAbsoluteUri.__call__
TypeAbsoluteUri_call(val) ==
    LET p == split(val)
    IN IF p.scheme = "" \/ p.fragment # "" \/ endswith(val, "#") THEN "ValueError"
       ELSE IF p.netloc = "" /\ p.scheme \notin {"urn", "file"} THEN "ValueError"
       ELSE "ok"

\* as a variant of _graft_path: the path of src follows the whole path of dst
TypeAbsoluteUri_graft_path_Append(d_path, s_path) == d_path \o "/" \o lstrip(s_path, "/")

\* TypeAbsoluteUri._graft_path: the last element of d_path is replaced
TypeAbsoluteUri_graft_path(d_path, s_path) ==
    SubSeq(d_path, 1, rfind(d_path, "/")) \o lstrip(s_path, "/")

\* as a variant of the test below: a URN is grafted like a URL
is_urn_Never(scheme) == FALSE

\* d_parts[0].lower() == 'urn'
is_urn(scheme) == lower(scheme) = "urn"

\* TypeAbsoluteUri.graft
TypeAbsoluteUri_graft(dst, src) ==
    LET d_parts == split(dst)
        s_parts == split(src)
        g_path == TypeAbsoluteUri_graft_path(d_parts.path, s_parts.path)
    IN IF TypeAbsoluteUri_call(dst) # "ok" THEN [exc |-> "ValueError", uri |-> None]
       ELSE IF TypeAbsoluteUri_call(src) = "ok" THEN [exc |-> "ok", uri |-> src]
       ELSE IF TypeUriReference_is_fragment(src) THEN [exc |-> "ok", uri |-> dst]
       ELSE IF is_urn(d_parts.scheme) THEN [exc |-> "ValueError", uri |-> None]
       ELSE [exc |-> "ok",
             uri |-> unsplit(d_parts.scheme, d_parts.netloc, g_path, d_parts.query,
                             d_parts.fragment)]

\* TypeAbsoluteUri.resolve
TypeAbsoluteUri_resolve(dst, src) ==
    LET d_parts == split(dst)
        s_parts == split(src)
        g_path == TypeAbsoluteUri_graft_path(d_parts.path, s_parts.path)
        bare == unsplit(s_parts.scheme, s_parts.netloc, s_parts.path, s_parts.query, "")
    IN IF TypeAbsoluteUri_call(dst) # "ok" THEN [exc |-> "ValueError", uri |-> None]
       ELSE IF TypeAbsoluteUri_call(bare) = "ok" THEN [exc |-> "ok", uri |-> src]
       ELSE IF TypeUriReference_is_fragment(src)
            THEN [exc |-> "ok",
                  uri |-> unsplit(d_parts.scheme, d_parts.netloc, d_parts.path,
                                  d_parts.query, lstrip(src, "#"))]
       ELSE IF is_urn(d_parts.scheme) THEN [exc |-> "ValueError", uri |-> None]
       ELSE [exc |-> "ok",
             uri |-> unsplit(d_parts.scheme, d_parts.netloc, g_path, d_parts.query,
                             d_parts.fragment)]

\* the URIs to graft onto, and the URI references to graft
Destinations ==
    {"http://h/a/b/c?q", "http://h/a/b/c", "http://h/a/", "http://h", "http://h?q",
     "http://h/a#f", "http://h/a#", "h/a", "file:///a/b", "urn:d:e?q", "urn:d", "URN:d",
     "d:e"}
Sources ==
    {"/src", "src", "s/t", "//s/t", "s?r", "s#f", "?r", "", "#", "#f", "ftp://s/?f",
     "http://s/t#f", "urn:s", "s:t", ":src"}

\* TypeAbsoluteUri().graft(dst, src), with input = <<dst, src>>
GraftUri ==
    /\ subject = "TypeAbsoluteUri"
    /\ LET r == TypeAbsoluteUri_graft(input[1], input[2])
       IN outcome' = [op |-> "graft", exc |-> r.exc, uri |-> r.uri]
    /\ Applied

\* TypeAbsoluteUri().resolve(dst, src)
ResolveUri ==
    /\ subject = "TypeAbsoluteUri"
    /\ LET r == TypeAbsoluteUri_resolve(input[1], input[2])
       IN outcome' = [op |-> "resolve", exc |-> r.exc, uri |-> r.uri]
    /\ Applied

NextUri == GraftUri \/ ResolveUri

InitUri ==
    /\ subject = "TypeAbsoluteUri"
    /\ input \in Destinations \X Sources
    /\ outcome = NoOutcome
    /\ NoModelledDict
    /\ NoRootSchema
    /\ NoIndexSupport

SpecUri == InitUri /\ [][NextUri]_vars

(***************************************************************************)
(* Properties of graft.                                                    *)
(***************************************************************************)
\* dst is an absolute URI that is no URN, and src is neither an absolute URI
\* nor a fragment alone
PathGraft ==
    /\ outcome.op = "graft"
    /\ TypeAbsoluteUri_call(input[1]) = "ok"
    /\ split(input[1]).scheme # "urn"
    /\ TypeAbsoluteUri_call(input[2]) # "ok"
    /\ ~TypeUriReference_is_fragment(input[2])

\* the path that has the path of src, without the '/' it starts with, in the
\* place of the last segment of the path of dst; where dst has no path, it
\* is the path of src after a '/', and empty where src has no path either
Regrafted ==
    LET d_path == split(input[1]).path
        kept == SubSeq(d_path, 1, rfind(d_path, "/"))
        s_path == lstrip(split(input[2]).path, "/")
    IN (IF kept = "" /\ s_path # "" THEN "/" ELSE kept) \o s_path

\* C22 as stated: the result has the scheme and the authority of dst, the
\* path of dst with its last segment replaced, and neither query nor
\* fragment.  It fails wherever dst has a query.
C22_GraftDiscardsQuery ==
    PathGraft =>
        /\ outcome.exc = "ok"
        /\ split(outcome.uri).scheme = split(input[1]).scheme
        /\ split(outcome.uri).netloc = split(input[1]).netloc
        /\ split(outcome.uri).path = Regrafted
        /\ split(outcome.uri).query = ""
        /\ split(outcome.uri).fragment = ""

\* C22: for an absolute dst that is no URN and a src that is neither absolute
\* nor a fragment alone, graft succeeds, and its result has the scheme, the
\* authority and the query of dst, the path of dst with its last segment
\* replaced by the path of src, nothing of the query and fragment of src,
\* and no fragment.
C22_GraftReplacesLastSegment ==
    PathGraft =>
        /\ outcome.exc = "ok"
        /\ split(outcome.uri).scheme = split(input[1]).scheme
        /\ split(outcome.uri).netloc = split(input[1]).netloc
        /\ split(outcome.uri).path = Regrafted
        /\ split(outcome.uri).query = split(input[1]).query
        /\ split(outcome.uri).fragment = ""
        /\ TypeAbsoluteUri_call(outcome.uri) = "ok"

\* a src with a query of its own grafted onto a dst with a query
C22_Witness ==
    /\ PathGraft
    /\ input = <<"http://h/a/b/c?q", "s?r">>
    /\ outcome.uri = "http://h/a/b/s?q"

\* C23: graft("http://h/a/b/c?q", "/src") is "http://h/a/b/src?q", and the
\* graft of a path onto a URN fails with ValueError.
C23_GraftExamples ==
    outcome.op = "graft" =>
        /\ input = <<"http://h/a/b/c?q", "/src">>
             => (outcome.exc = "ok" /\ outcome.uri = "http://h/a/b/src?q")
        /\ (/\ TypeAbsoluteUri_call(input[1]) = "ok"
            /\ split(input[1]).scheme = "urn"
            /\ TypeAbsoluteUri_call(input[2]) # "ok"
            /\ ~TypeUriReference_is_fragment(input[2]))
             => outcome.exc = "ValueError"

\* the path ":src" grafted onto a URN with a query
C23_Witness ==
    /\ outcome.op = "graft"
    /\ input = <<"urn:d:e?q", ":src">>
    /\ outcome.exc = "ValueError"

(***************************************************************************)
(* The mutating methods a specialised dict class inherits from dict.       *)
(* ModelledDict.__new__ gives the class __setitem__, __delitem__, clear,   *)
(* pop, popitem, setdefault and update; `d |= other` is dict.__ior__.      *)
(***************************************************************************)
\* dict.__ior__(self, other): every pair of other is stored
dict_ior(self, other) == [exc |-> "ok", d |-> DictUpdate(self, other)]

\* d |= other
InPlaceOr(other) ==
    LET r == dict_ior(d, other)
    IN /\ d' = r.d
       /\ last' = Call("ior", NoKey, DOMAIN other, r.exc)
       /\ Kept(r.d)

NextMutate == NextDict \/ \E other \in Others : InPlaceOr(other)

\* instances of classes built by Object.validator, under every mutating
\* method
InitMutate == Construct(ObjectModels)
SpecMutate == InitMutate /\ [][NextMutate]_vars

\* C24: the contents of an enforced dict are accepted by the model of its
\* class after every operation.  It fails after `d |= other`, which no
\* screen of the model sees.
C24_ContentsStayValid == model_call(model, d).exc = "ok"

\* the contents are not accepted by the model after `d |= other`
C24_Witness ==
    /\ last.op = "ior"
    /\ last.exc = "ok"
    /\ model.cls = "ObjectModel"
    /\ model_call(model, d).exc # "ok"

(***************************************************************************)
(* A Schema with object keywords and one keyword outside the object model  *)
(* (_ImplExplicit.__call__ with the validators of validators/enum.py,      *)
(* conditional.py, allof.py, anyof.py, oneof.py and not_.py).  The Schema  *)
(* is a record: model is the object model of its own class, keyword the    *)
(* other keyword ("none" without one) and schemas its Subschemas, for `if` *)
(* those at `if`, `then` and `else`.  A Subschema is true (or has no rule  *)
(* for an object), false, or has object keywords and so a class of its     *)
(* own.  A container is the model of its class and its contents.           *)
(***************************************************************************)
Subschema(kind, m) == [kind |-> kind, model |-> m]
Container(cls, contents) == [exc |-> "ok", cls |-> cls, d |-> contents]
Rejected(exc, c) == [exc |-> exc, cls |-> c.cls, d |-> c.d]

\* schema(val) for a Subschema and a container val: a Subschema with a class
\* of its own returns a new instance of that class
Subschema_call(s, c) ==
    CASE s.kind = "true" -> c
      [] s.kind = "false" -> Rejected("ValueError", c)
      [] OTHER ->
           LET e == ObjectModel_call(s.model, c.d)
           IN IF e = "ok" THEN Container(s.model, c.d) ELSE Rejected(e, c)

\* AllOfValidator.__call__, from the Subschema at position i on: each is
\* called with the value the one before returned
RECURSIVE AllOfValidator_call(_, _, _)
AllOfValidator_call(schemas, i, c) ==
    IF i > Len(schemas) THEN c
    ELSE LET r == Subschema_call(schemas[i], c)
         IN IF r.exc # "ok" THEN r ELSE AllOfValidator_call(schemas, i + 1, r)

\* AnyOfValidator.__call__: what the first Subschema that accepts returns
AnyOfValidator_call(schemas, c) ==
    LET ok == {i \in 1..Len(schemas) : Subschema_call(schemas[i], c).exc = "ok"}
    IN IF ok = {} THEN Rejected("ValueError", c)
       ELSE Subschema_call(schemas[First(ok)], c)

\* OneOfValidator.__call__ for a container: what the one Subschema that
\* accepts returns
OneOfValidator_container(schemas, c) ==
    LET ok == {i \in 1..Len(schemas) : Subschema_call(schemas[i], c).exc = "ok"}
    IN IF Cardinality(ok) # 1 THEN Rejected("ValueError", c)
       ELSE Subschema_call(schemas[First(ok)], c)

\* NotValidator.__call__: the value itself
NotValidator_call(schemas, c) ==
    IF Subschema_call(schemas[1], c).exc = "ok" THEN Rejected("ValueError", c) ELSE c

\* ConditionalValidator.__call__: what `then` returns for what `if`
\* returned, or what `else` returns for the value
ConditionalValidator_call(schemas, c) ==
    LET r == Subschema_call(schemas[1], c)
    IN IF r.exc = "ok" THEN Subschema_call(schemas[2], r) ELSE Subschema_call(schemas[3], c)

\* the validator of `enum` and `const` for a container: equal() holds for
\* no container and item, as the item is not an instance of the class of
\* the container
EnumValidator_call(c) == Rejected("ValueError", c)

\* _ImplExplicit.__call__ for a dict val: the class of the Schema makes the
\* container, and the validator of the other keyword returns the value
Schema_container(S, val) ==
    LET e == ObjectModel_call(S.model, val)
        c == Container(S.model, val)
    IN IF e # "ok" THEN Rejected(e, c)
       ELSE CASE S.keyword = "enum" -> EnumValidator_call(c)
              [] S.keyword = "if" -> ConditionalValidator_call(S.schemas, c)
              [] S.keyword = "allOf" -> AllOfValidator_call(S.schemas, 1, c)
              [] S.keyword = "anyOf" -> AnyOfValidator_call(S.schemas, c)
              [] S.keyword = "oneOf" -> OneOfValidator_container(S.schemas, c)
              [] S.keyword = "not" -> NotValidator_call(S.schemas, c)
              [] OTHER -> c

NoDependencies == [dep_instance |-> [k \in {} |-> DepSchema], dep_presence |-> NoKeySets]
\* {"properties": {"foo": {"type": "number"}, "bar": {}},
\*  "additionalProperties": false}
TypedRules == [properties |-> [k \in {"foo", "bar"} |-> IF k = "foo" THEN SchemaNumber ELSE SchemaTrue],
               patternProperties |-> <<>>, additionalProperties |-> <<SchemaFalse>>,
               propertyNames |-> <<>>]
ContainerModel == ObjectModelOf({}, {}, {}, TypedRules, NoDependencies)
SubschemaTrue == Subschema("true", ObjectModelOf({}, {}, {}, PlainRules, NoDependencies))
SubschemaFalse == Subschema("false", ObjectModelOf({}, {}, {}, PlainRules, NoDependencies))
\* {"type": "object"}
SubschemaObject == Subschema("object", ObjectModelOf({}, {}, {}, PlainRules, NoDependencies))
\* {"required": ["foo"]}
SubschemaRequired ==
    Subschema("object", ObjectModelOf({"foo"}, {}, {}, PlainRules, NoDependencies))
SubschemaLists ==
    {<<SubschemaTrue>>, <<SubschemaObject>>, <<SubschemaRequired>>,
     <<SubschemaRequired, SubschemaTrue>>}
ContainerSchemas ==
    {[model |-> ContainerModel, keyword |-> k, schemas |-> <<>>] : k \in {"none", "enum"}}
        \cup {[model |-> ContainerModel, keyword |-> k, schemas |-> ss] :
                k \in {"allOf", "anyOf", "oneOf"}, ss \in SubschemaLists}
        \cup {[model |-> ContainerModel, keyword |-> "not", schemas |-> <<s>>] :
                s \in {SubschemaFalse, SubschemaRequired}}
        \cup {[model |-> ContainerModel, keyword |-> "if",
               schemas |-> <<s, SubschemaObject, SubschemaTrue>>] :
                s \in {SubschemaFalse, SubschemaRequired}}

\* container = schema(val): the container is an instance of the class that
\* made it
InitContainer ==
    /\ subject \in ContainerSchemas
    /\ input \in Dicts
    /\ Schema_container(subject, input).exc = "ok"
    /\ model = Schema_container(subject, input).cls
    /\ d = Schema_container(subject, input).d
    /\ last = Call("init", NoKey, DOMAIN input, "ok")
    /\ held = Hold(EmptyDict, model, d)
    /\ outcome = NoOutcome
    /\ NoRootSchema
    /\ NoIndexSupport

NextContainer == NextDict

SpecContainer == InitContainer /\ [][NextContainer]_vars

\* C25: the contents of a container that a Schema returned are accepted by
\* that Schema after every mutation.  It fails for a Schema with `allOf`,
\* `anyOf`, `oneOf` or `if`, whose container is an instance of the class of
\* a Subschema, and for a Schema with `not`, which no class screens.
C25_ContainerStaysValid == Schema_container(subject, d).exc = "ok"

\* the container that the Schema with `allOf` returned is of the class of
\* its Subschema, which accepts "foo" set to a value that is no number
C25_Witness ==
    /\ subject.keyword = "allOf"
    /\ model # subject.model
    /\ last.op = "setitem" /\ last.exc = "ok" /\ last.key = "foo"
    /\ Schema_container(subject, d).exc = "TypeError"

(***************************************************************************)
(* Schema.validate and Schema.debug (jsonschema/schema.py) on a Schema     *)
(* that may also have `propertyNames`: DictSchema with one more field,     *)
(* propertyNames, the Schema of the keyword in a sequence that is empty    *)
(* where the keyword is absent.  The Schemas at `properties` x and at      *)
(* `propertyNames` are of one level.                                       *)
(***************************************************************************)
NamedSchema(type, minimum, properties, propertyNames) ==
    [bool |-> "dict", type |-> type, minimum |-> minimum, properties |-> properties,
     propertyNames |-> propertyNames]

\* TYPE_TYPE.schema_types and the include functions of RootSchema._define,
\* where `propertyNames` is a keyword of the object validator
Named_type_validators(s) ==
    IF s.type # <<>> THEN s.type
    ELSE (IF s.minimum # <<>> THEN <<"number">> ELSE <<>>)
         \o (IF s.properties # <<>> \/ s.propertyNames # <<>> THEN <<"object">> ELSE <<>>)

\* ObjectModel.form_pair for the key x with value val: the Schema of
\* `properties` is applied to the value, then that of `propertyNames` to
\* the key, whose KeyError or ValueError becomes KeyError
ObjectModel_form_pair(s, val) ==
    LET member == IF s.properties = <<>> THEN "ok" ELSE Impl_call(s.properties[1], val)
        name == Impl_call(s.propertyNames[1], Scalar("string", 1))
    IN CASE member # "ok" -> member
         [] s.propertyNames = <<>> -> "ok"
         [] name = "ValueError" -> "KeyError"
         [] OTHER -> name

\* Schema.__call__ on the Schema: _ImplExplicit.__call__ or
\* _ImplImplicit.__call__ with ObjectModel.__call__, which raises ValueError
\* for the KeyError of form_pair
Named_call(s, v) ==
    LET hit == first_checked(Named_type_validators(s), v)
        func == IF s.minimum = <<>> THEN "True" ELSE minimum_func(s.minimum[1], v)
        pair == ObjectModel_form_pair(s, v.x[1])
    IN CASE hit = <<>> -> IF s.type # <<>> THEN "TypeError" ELSE "ok"
         [] hit[1] = "number" ->
              CASE func = "True" -> "ok" [] func = "False" -> "ValueError" [] OTHER -> func
         [] hit[1] = "object" ->
              IF v.x = <<>> THEN "ok" ELSE IF pair = "KeyError" THEN "ValueError" ELSE pair
         [] OTHER -> "ok"

\* Schema.validate: whether applying the Schema raises neither TypeError nor
\* ValueError
Schema_validate_Named(s, v) == Named_call(s, v) \notin {"TypeError", "ValueError"}

\* Schema.debug on the Schema: _ImplExplicit.debug or _ImplImplicit.debug
\* with ObjectModel.debug, which reads `properties` of the keywords with a
\* Schema here; the boolean it returns
Named_debug(s, v) ==
    LET hit == first_checked(Named_type_validators(s), v)
        func == IF s.minimum = <<>> THEN "True" ELSE minimum_func(s.minimum[1], v)
    IN CASE hit = <<>> -> s.type = <<>>
         [] hit[1] = "number" -> func = "True"
         [] hit[1] = "object" ->
              IF s.properties # <<>> /\ v.x # <<>>
              THEN Impl_debug(s.properties[1], v.x[1], "/x",
                              InitialBaseUri \o "#/properties/x").ret
              ELSE TRUE
         [] OTHER -> TRUE

\* the Schemas of `propertyNames` and the Schemas the two are applied to
NameSchemas ==
    {BoolSchema("true"), BoolSchema("false"), DictSchema(<<"number">>, <<>>, <<>>),
     DictSchema(<<"string">>, <<>>, <<>>), DictSchema(<<>>, <<1>>, <<>>)}
NamedSchemas ==
    {NamedSchema(t, m, p, n) : t \in {<<>>, <<"number">>, <<"object">>},
                               m \in {<<>>, <<1>>},
                               p \in {<<>>} \cup {<<l>> : l \in NameSchemas},
                               n \in {<<>>} \cup {<<l>> : l \in NameSchemas}}

\* schema.validate(val)
Validate ==
    /\ subject \in NamedSchemas
    /\ outcome' = [op |-> "validate", exc |-> Named_call(subject, input),
                   ret |-> Schema_validate_Named(subject, input), results |-> {}]
    /\ Applied

\* schema.debug(val, results), the verdict of the command line tool
Debug ==
    /\ subject \in NamedSchemas
    /\ outcome' = [op |-> "debug", exc |-> "ok", ret |-> Named_debug(subject, input),
                   results |-> {}]
    /\ Applied

NextVerdict == Validate \/ Debug

InitVerdict ==
    /\ subject \in NamedSchemas
    /\ input \in DebugValues
    /\ outcome = NoOutcome
    /\ NoModelledDict
    /\ NoRootSchema
    /\ NoIndexSupport

SpecVerdict == InitVerdict /\ [][NextVerdict]_vars

\* C26: debug mode and normal mode give the same verdict: whenever
\* S.debug(v, results) or S.validate(v) has returned, the other returns the
\* same boolean for the same Schema and value
C26_SameVerdict ==
    /\ outcome.op = "debug" => outcome.ret = Schema_validate_Named(subject, input)
    /\ outcome.op = "validate" => outcome.ret = Named_debug(subject, input)

\* debug has returned true for {"propertyNames": false} and the object with
\* the member x, which validate rejects
C26_Witness ==
    /\ subject = NamedSchema(<<>>, <<>>, <<>>, <<BoolSchema("false")>>)
    /\ input = Object(<<Scalar("number", 1)>>)
    /\ outcome.op = "debug"
    /\ outcome.ret = TRUE
    /\ ~Schema_validate_Named(subject, input)

(***************************************************************************)
(* Schema.__call__ step by step (jsonschema/schema.py).  Each call of      *)
(* self._implementation(val) is a frame of the interpreter: subject is the *)
(* Schema whose implementation is called next, input the value it is       *)
(* called with, and outcome the Schema the application started at, the     *)
(* frames in progress and how the application ended ("pending" before).    *)
(***************************************************************************)
\* the most frames the interpreter allows (sys.getrecursionlimit(), 1000 by
\* default), here above the longest chain of a document without a cycle
RecursionLimit == 6

Chain(n, val, depth, exc) ==
    [op |-> "call", schema |-> n, val |-> val, depth |-> depth, exc |-> exc]

\* schema(val) on a Schema of a root Schema that has been built
StartCall(n, val) ==
    /\ phase = "defined"
    /\ n \in DOMAIN implementation
    /\ outcome = NoOutcome
    /\ subject' = n
    /\ input' = val
    /\ outcome' = Chain(n, val, 1, "pending")
    /\ UNCHANGED <<loadvars, spec, support, registry, stack, identifiers, pending,
                   implementation, defined, todo, phase, error, model, d, last, held>>

\* the next frame: the implementation is the Schema of a `$ref`, which is
\* called with the same value, or the validators of an object that call
\* the Subschema of a member with the member
Delegate ==
    /\ outcome.exc = "pending"
    /\ outcome.depth < RecursionLimit
    /\ LET impl == implementation[subject]
       IN \/ /\ impl.kind = "Schema"
             /\ subject' = impl.schema
             /\ input' = input
          \/ /\ impl.kind = "validators"
             /\ input = "{x:1}"
             /\ impl.subschemas # {}
             /\ subject' = CHOOSE s \in impl.subschemas : TRUE
             /\ input' = "1"
    /\ outcome' = [outcome EXCEPT !.depth = @ + 1]
    /\ UNCHANGED <<loadvars, spec, support, registry, stack, identifiers, pending,
                   implementation, defined, todo, phase, error, model, d, last, held>>

\* the implementation has no Schema to call: _TRUE, _FALSE, or validators
\* without a Subschema for the value
Return ==
    /\ outcome.exc = "pending"
    /\ LET impl == implementation[subject]
       IN /\ impl.kind # "Schema"
          /\ ~(impl.kind = "validators" /\ input = "{x:1}" /\ impl.subschemas # {})
          /\ outcome' = [outcome EXCEPT !.exc = IF impl.kind = "_FALSE" THEN "ValueError"
                                                ELSE "ok"]
    /\ UNCHANGED <<loadvars, subject, input, spec, support, registry, stack, identifiers,
                   pending, implementation, defined, todo, phase, error, model, d, last, held>>

\* the interpreter refuses one more frame
Overflow ==
    /\ outcome.exc = "pending"
    /\ outcome.depth = RecursionLimit
    /\ implementation[subject].kind = "Schema"
    /\ outcome' = [outcome EXCEPT !.exc = "RecursionError"]
    /\ UNCHANGED <<loadvars, subject, input, spec, support, registry, stack, identifiers,
                   pending, implementation, defined, todo, phase, error, model, d, last, held>>

NextChain ==
    \/ Declare
    \/ DeclareReturn
    \/ Define
    \/ \E n \in Schemas : DefineSchema(n)
    \/ \E n \in Schemas, val \in ApplyValues : StartCall(n, val)
    \/ Delegate
    \/ Return
    \/ Overflow

\* the documents without `$id` at the root, under a Support without formats;
\* an application that has started goes on: the interpreter is one thread
InitChain == InitApply

SpecChain ==
    InitChain /\ [][NextChain]_vars /\ WF_vars(Delegate) /\ WF_vars(Return) /\ WF_vars(Overflow)

\* C27: applying a Schema of a built graph terminates at an implementation
\* that is no reference: an application in progress leads to one that has
\* returned from _TRUE, _FALSE or validators, also when the `$ref`s form a
\* cycle
C27_ChainReachesImplementation ==
    (outcome.exc = "pending") ~> (outcome.exc \in {"ok", "ValueError"})

\* A with `$ref` to B and B with `$ref` to A: the application started at A
\* has filled the frames of the interpreter and ended with RecursionError
C27_Witness ==
    /\ phase = "defined"
    /\ implementation["A"] = [kind |-> "Schema", schema |-> "B"]
    /\ implementation["B"] = [kind |-> "Schema", schema |-> "A"]
    /\ outcome = Chain("A", "1", RecursionLimit, "RecursionError")

(***************************************************************************)
(* The load stack of IndexSupport (jsonschema/index.py) when load_schema   *)
(* returns or raises.                                                      *)
(***************************************************************************)
\* the files of the loads in progress that load_schema made, oldest first
InProgress ==
    LET pushed == SelectSeq(frames, LAMBDA f : f.pushed)
    IN [i \in 1..Len(pushed) |-> pushed[i].file]

\* C28: the load stack holds exactly the documents whose load is in
\* progress, so it is as it was once load_schema has returned or raised, and
\* a call of load_schema by the application, with no load in progress, is
\* never answered with the RuntimeError of a circular dependency
C28_StackRestored ==
    /\ [](load_stack = InProgress)
    /\ [][frames = <<>> => raised' # "RuntimeError"]_vars

\* b refers to z, which is not in the index: the load of b has failed with
\* b left on the load stack, and the next request for b has been answered
\* with RuntimeError
C28_Witness ==
    /\ documents = [f \in Files |-> IF f = "b" THEN {"z"} ELSE {}]
    /\ frames = <<>>
    /\ roots = {}
    /\ load_stack = <<"b">>
    /\ raised = "RuntimeError"

(***************************************************************************)
(* One document built twice (RootSchema.__init__, jsonschema/schema.py):   *)
(* first with the `$id` of its root written without a fragment, then with  *)
(* the empty fragment added.  outcome keeps how the first build ended and  *)
(* the URIs it registered.                                                 *)
(***************************************************************************)
RootId == "http://h/v"

Built(exc, uris) == [op |-> "RootSchema", exc |-> exc, uris |-> uris]

\* RootSchema(spec, initial_base_uri) once more, for the document with `#`
\* added to the `$id` of its root
Rebuild ==
    /\ phase \in {"defined", "failed"}
    /\ outcome = NoOutcome
    /\ spec.id = RootId
    /\ outcome' = IF phase = "defined" THEN Built("ok", DOMAIN registry)
                  ELSE Built(error, {})
    /\ spec' = [spec EXCEPT !.id = RootId \o "#"]
    /\ registry' = <<>>
    /\ stack' = <<"R">>
    /\ identifiers' =
         ("R" :> Identifiers(Identifiers_define(spec', support, "R", InitialBaseUri)))
    /\ pending' = IF Schema_init(spec', "R") = "ok" THEN <<Frame("declare", "R", None)>>
                  ELSE <<>>
    /\ implementation' = ("R" :> NoImplementation)
    /\ defined' = ("R" :> 0)
    /\ todo' = <<>>
    /\ phase' = IF Schema_init(spec', "R") = "ok" THEN "declaring" ELSE "failed"
    /\ error' = IF Schema_init(spec', "R") = "ok" THEN None ELSE Schema_init(spec', "R")
    /\ UNCHANGED <<loadvars, subject, input, support, model, d, last, held>>

NextTwin ==
    \/ Declare
    \/ DeclareReturn
    \/ Define
    \/ \E n \in Schemas : DefineSchema(n)
    \/ Rebuild

InitTwin == InitGraph /\ spec.id = RootId

SpecTwin == InitTwin /\ [][NextTwin]_vars

\* the second build has ended
Rebuilt == outcome.op = "RootSchema" /\ phase \in {"defined", "failed"}

\* C29: a root `$id` with an empty fragment is equivalent to the same `$id`
\* without it: the build with U# succeeds exactly when the build with U
\* does, and registers the same set of URIs
C29_EmptyFragmentEquivalent ==
    Rebuilt => /\ (phase = "defined") <=> (outcome.exc = "ok")
               /\ phase = "defined" => DOMAIN registry = outcome.uris

\* the document whose Subschema A has the `$id` "o" was built with the root
\* `$id` U, and its build with U# has failed with ValueError
C29_Witness ==
    /\ Rebuilt
    /\ spec.sub["A"] = DictSpec("o", None)
    /\ spec.sub["B"].kind = "true"
    /\ outcome.exc = "ok"
    /\ phase = "failed"
    /\ error = "ValueError"

(***************************************************************************)
(* An enforced dict whose pair foo has a DictModel as its value type       *)
(* (model.py): the values set at its keys are dicts over foo and bar, and  *)
(* the inner model has the pair foo, a number.                             *)
(***************************************************************************)
InnerKeys == {"foo", "bar"}
InnerValues == UNION {[S -> AllValues] : S \in SUBSET InnerKeys}

InnerModel(policy) ==
    [cls |-> "DictModel", policy_spec |-> policy,
     pair_model |-> [k \in {"foo"} |->
                       [value_type |-> SchemaNumber, mandatory |-> FALSE, constant |-> FALSE]]]

NestedModels ==
    { [cls |-> "DictModel", policy_spec |-> policy,
       pair_model |-> [k \in {"foo"} |->
                         [value_type |-> InnerModel(inner), mandatory |-> FALSE,
                          constant |-> FALSE]]] :
      policy \in POLICY, inner \in POLICY }

\* the arguments of update(): one pair or two
NestedOthers == {o \in UNION {[S -> InnerValues] : S \in SUBSET InnerKeys} : DOMAIN o # {}}

\* d = cls({})
InitNested ==
    /\ model \in NestedModels
    /\ d = EmptyDict
    /\ last = Call("init", NoKey, {}, "ok")
    /\ held = EmptyDict
    /\ NoRootSchema
    /\ NoIndexSupport
    /\ NoEvaluation

NextNested ==
    \/ \E key \in InnerKeys, val \in InnerValues : SetItem(key, val)
    \/ \E other \in NestedOthers : Update(other)

SpecNested == InitNested /\ [][NextNested]_vars

\* C30: update and setitem agree: an accepted d.update({k: v}) leaves at k
\* the value an accepted d[k] = v stores, which is the value returned by
\* screening v through the value type of the pair
C30_UpdateStoresScreened ==
    [][\A key \in DOMAIN model.pair_model, val \in InnerValues :
          LET u == modelled_dict_update(model, d, key :> val)
              s == modelled_dict_setitem(model, d, key, val)
          IN (last'.op = "update" /\ last'.keys = {key} /\ d' = u.d
              /\ u.exc = "ok" /\ s.exc = "ok")
             => /\ d'[key] = s.d[key]
                /\ d'[key] = screen_value(model, key, val).val]_vars

\* the inner model ignores the pairs it has no model for: update has left
\* at foo a dict with the pair bar, which setitem does not store
C30_Witness ==
    /\ model.pair_model["foo"].value_type.policy_spec = "must-ignore"
    /\ last = Call("update", NoKey, {"foo"}, "ok")
    /\ d = ("foo" :> ("foo" :> 1 @@ "bar" :> 1))
    /\ modelled_dict_setitem(model, EmptyDict, "foo", d["foo"]).d = ("foo" :> ("foo" :> 1))
====
